---- MODULE Spec2Model ----
(***************************************************************************)
(* A model of the caching JSON databridge (src/lib/cjdb.js, version 0.0.2).*)
(*                                                                         *)
(* Strings are sequences of one-character strings, so that the Name        *)
(* grammar, the stream name generator and the cache file names are         *)
(* computed character by character, as the code computes them.             *)
(* JavaScript values are records [t |-> <type tag>, v |-> <content>].      *)
(* Time is counted in seconds.                                             *)
(***************************************************************************)
EXTENDS Integers, Sequences, FiniteSets, TLC

(***************************************************************************)
(* Characters                                                              *)
(***************************************************************************)
LowerCase ==
    <<"a","b","c","d","e","f","g","h","i","j","k","l","m",
      "n","o","p","q","r","s","t","u","v","w","x","y","z">>

UpperCase ==
    <<"A","B","C","D","E","F","G","H","I","J","K","L","M",
      "N","O","P","Q","R","S","T","U","V","W","X","Y","Z">>

DigitChars == <<"0","1","2","3","4","5","6","7","8","9">>

Punctuation == <<"_", "-", ".", ",", ":", "\"", "[", "]", "{", "}", " ", "+">>

\* every character a string of the model can hold, in a fixed order
Alphabet == LowerCase \o UpperCase \o DigitChars \o Punctuation

Range(s) == {s[i] : i \in 1..Len(s)}

\* the character class [a-zA-Z]
Letters == Range(LowerCase) \cup Range(UpperCase)

\* the character class [a-zA-Z0-9_]
WordChars == Letters \cup Range(DigitChars) \cup {"_"}

CharCode(c) == CHOOSE i \in 1..Len(Alphabet) : Alphabet[i] = c

(***************************************************************************)
(* The state of a bridge and of its environment                            *)
(***************************************************************************)
VARIABLES
    options,        \* Databridge._options
    datasources,    \* Databridge._datasources: the registry
    store,          \* the files of the cache directory, by path
    now,            \* the clock read by moment()
    pending,        \* the fetches whose data promise has not settled
    nFetches,       \* the number of fetch calls made
    last,           \* the most recent call or callback and what it returned
    writes,         \* history: by cache path, the fetch whose write the file holds
    shortcuts,      \* the properties registerDatasource added to the bridge
    registered,     \* history: by name, the datasource a registration stored
    started,        \* history: by slot, the number of the fetch call that holds it
    served          \* history: by cache path, how often the file was served

vars == <<options, datasources, store, now, pending, nFetches, last, writes, shortcuts,
          registered, started, served>>

(***************************************************************************)
(* JavaScript values                                                       *)
(***************************************************************************)
Undefined == [t |-> "undefined"]
Null == [t |-> "null"]
Bool(b) == [t |-> "boolean", v |-> b]
Num(n) == [t |-> "number", v |-> n]
Str(s) == [t |-> "string", v |-> s]
Arr(s) == [t |-> "array", v |-> s]
\* a plain object: the sequence of its <<key, value>> pairs in insertion order
Obj(s) == [t |-> "object", v |-> s]
\* a function value
Func == [t |-> "function"]
\* an object that refers to itself
Cyclic == [t |-> "cyclic"]

\* the typeof operator
TypeOf(val) ==
    IF val.t \in {"null", "array", "object", "cyclic"} THEN "object" ELSE val.t

\* String(n) for an integer n
RECURSIVE NatToString(_)
NatToString(n) ==
    IF n < 10 THEN <<DigitChars[n + 1]>>
    ELSE NatToString(n \div 10) \o <<DigitChars[(n % 10) + 1]>>

NumberToString(n) == IF n < 0 THEN <<"-">> \o NatToString(0 - n) ELSE NatToString(n)

(***************************************************************************)
(* Names (vpCons.databridgeName)                                           *)
(***************************************************************************)
\* the length the regular expression asks of a name: one letter and {2,}
MinNameLen == 3

\* RegExp.exec of /[a-zA-Z][a-zA-Z0-9_]{2,}/: the places where a match can
\* start
MatchStarts(s) ==
    {i \in 1..Len(s) :
        /\ s[i] \in Letters
        /\ i + MinNameLen - 1 <= Len(s)
        /\ \A j \in (i + 1)..(i + MinNameLen - 1) : s[j] \in WordChars}

\* the end of the greedy match that starts at i
MatchEnd(s, i) ==
    CHOOSE e \in i..Len(s) :
        /\ \A j \in (i + 1)..e : s[j] \in WordChars
        /\ (e = Len(s) \/ s[e + 1] \notin WordChars)

\* the format validator of validate.js: the leftmost match must span the
\* whole value
FormatMatches(s) ==
    /\ MatchStarts(s) # {}
    /\ LET i == CHOOSE k \in MatchStarts(s) : \A m \in MatchStarts(s) : k <= m
       IN  MatchEnd(s, i) - i + 1 = Len(s)

\* validate.single(val, {presence: true, hasTypeof: 'string', format: ...})
\* reports no error
IsDatabridgeName(val) ==
    /\ val.t = "string"
    /\ Len(val.v) > 0
    /\ FormatMatches(val.v)

(***************************************************************************)
(* JSON.stringify                                                          *)
(***************************************************************************)
\* the outcome of a call that returns a string, returns undefined or throws
Returned(s) == [ok |-> TRUE, undef |-> FALSE, s |-> s]
ReturnedUndefined == [ok |-> TRUE, undef |-> TRUE, s |-> <<>>]
Thrown == [ok |-> FALSE, undef |-> FALSE, s |-> <<>>]

StrNull == <<"n","u","l","l">>
StrTrue == <<"t","r","u","e">>
StrFalse == <<"f","a","l","s","e">>

Quoted(s) == <<"\"">> \o s \o <<"\"">>

RECURSIVE JSONstringify(_)
RECURSIVE StringifyElements(_, _)
RECURSIVE StringifyMembers(_, _)

\* the elements of an array from index i on, separated by commas: undefined
\* and functions are written as null
StringifyElements(elems, i) ==
    IF i > Len(elems) THEN Returned(<<>>)
    ELSE LET head == JSONstringify(elems[i])
             tail == StringifyElements(elems, i + 1)
             text == IF head.undef THEN StrNull ELSE head.s
         IN  IF ~head.ok \/ ~tail.ok THEN Thrown
             ELSE Returned(text \o (IF i < Len(elems) THEN <<",">> ELSE <<>>) \o tail.s)

\* the members of an object from index i on: members whose value is
\* undefined or a function are left out
StringifyMembers(pairs, i) ==
    IF i > Len(pairs) THEN Returned(<<>>)
    ELSE LET head == JSONstringify(pairs[i][2])
             tail == StringifyMembers(pairs, i + 1)
         IN  IF ~head.ok \/ ~tail.ok THEN Thrown
             ELSE IF head.undef THEN tail
             ELSE Returned(Quoted(pairs[i][1]) \o <<":">> \o head.s
                           \o (IF tail.s # <<>> THEN <<",">> ELSE <<>>) \o tail.s)

JSONstringify(val) ==
    CASE val.t = "null" -> Returned(StrNull)
      [] val.t = "boolean" -> Returned(IF val.v THEN StrTrue ELSE StrFalse)
      [] val.t = "number" -> Returned(NumberToString(val.v))
      [] val.t = "string" -> Returned(Quoted(val.v))
      [] val.t = "array" ->
            LET inner == StringifyElements(val.v, 1)
            IN  IF inner.ok THEN Returned(<<"[">> \o inner.s \o <<"]">>) ELSE Thrown
      [] val.t = "object" ->
            LET inner == StringifyMembers(val.v, 1)
            IN  IF inner.ok THEN Returned(<<"{">> \o inner.s \o <<"}">>) ELSE Thrown
      [] val.t = "cyclic" -> Thrown
      [] OTHER -> ReturnedUndefined

(***************************************************************************)
(* stringToMD5Hex                                                          *)
(***************************************************************************)
\* an MD5 digest in hexadecimal has 32 characters
Md5HexLen == 32

HexChars == <<"0","1","2","3","4","5","6","7","8","9","a","b","c","d","e","f">>

\* The digest is a stand-in for MD5: character k of the result is a
\* polynomial hash of the input, seeded with k, reduced to one hex digit.
RECURSIVE PolyHash(_, _, _, _)
PolyHash(str, i, seed, acc) ==
    IF i > Len(str) THEN acc
    ELSE PolyHash(str, i + 1, seed, (acc * 33 + CharCode(str[i]) + seed) % 65521)

stringToMD5Hex(str) ==
    [k \in 1..Md5HexLen |-> HexChars[(PolyHash(str, 1, k, k) % 16) + 1]]

(***************************************************************************)
(* Datasource.defaultStreamNameGenerator                                   *)
(***************************************************************************)
\* the outcome of a stream name generator: a name, or an error
NameResult(s) == [ok |-> TRUE, name |-> Str(s)]
NameError == [ok |-> FALSE, name |-> Undefined]

\* _valToNameString without the fall back to a digest
valToNameString_noFallback(val) ==
    CASE val.t = "undefined" -> NameResult(<<"u","n","d","e","f">>)
      [] val.t = "boolean" -> NameResult(IF val.v THEN StrTrue ELSE StrFalse)
      [] val.t = "number" -> NameResult(<<"n","_">> \o NumberToString(val.v))
      [] val.t = "string" ->
            IF Len(val.v) = 0 THEN NameResult(<<"e","m","p","t","y","S","t","r">>)
            ELSE NameResult(<<"s","_">> \o val.v)
      [] val.t \in {"null", "array", "object"} /\ JSONstringify(val).ok ->
            NameResult(<<"o","_">> \o stringToMD5Hex(JSONstringify(val).s))
      [] OTHER -> NameError

\* Datasource._valToNameString
valToNameString(val) ==
    LET valType == TypeOf(val) IN
    CASE valType = "undefined" -> NameResult(<<"u","n","d","e","f">>)
      [] valType = "boolean" -> NameResult(IF val.v THEN StrTrue ELSE StrFalse)
      [] valType = "number" ->
            LET prelimAns == <<"n","_">> \o NumberToString(val.v)
            IN  IF IsDatabridgeName(Str(prelimAns)) THEN NameResult(prelimAns)
                ELSE NameResult(<<"n","_">> \o stringToMD5Hex(NumberToString(val.v)))
      [] valType = "string" ->
            IF Len(val.v) = 0 THEN NameResult(<<"e","m","p","t","y","S","t","r">>)
            ELSE LET prelimAns == <<"s","_">> \o val.v
                 IN  IF IsDatabridgeName(Str(prelimAns)) THEN NameResult(prelimAns)
                     ELSE NameResult(<<"s","_">> \o stringToMD5Hex(val.v))
      [] valType = "object" ->
            LET json == JSONstringify(val)
            IN  IF json.ok /\ ~json.undef
                THEN NameResult(<<"o","_">> \o stringToMD5Hex(json.s))
                ELSE NameError
      [] OTHER -> NameError

\* the generator without the argument count in the name
defaultStreamNameGenerator_noCount(fetcherParams) ==
    IF Len(fetcherParams) = 0 THEN NameResult(<<"m","a","i","n">>)
    ELSE IF Len(fetcherParams) = 1 THEN valToNameString(fetcherParams[1])
    ELSE LET json == JSONstringify(Arr(fetcherParams))
         IN  IF json.ok THEN NameResult(<<"p","_">> \o stringToMD5Hex(json.s))
             ELSE NameError

\* the generator numbering the names by the calls made so far
defaultStreamNameGenerator_counted(fetcherParams) ==
    IF Len(fetcherParams) = 0
    THEN NameResult(<<"m","a","i","n">> \o NumberToString(nFetches))
    ELSE IF Len(fetcherParams) = 1 THEN valToNameString(fetcherParams[1])
    ELSE LET json == JSONstringify(Arr(fetcherParams))
         IN  IF json.ok
             THEN NameResult(<<"p">> \o NumberToString(Len(fetcherParams)) \o <<"_">>
                             \o stringToMD5Hex(json.s))
             ELSE NameError

defaultStreamNameGenerator(fetcherParams) ==
    IF Len(fetcherParams) = 0 THEN NameResult(<<"m","a","i","n">>)
    ELSE IF Len(fetcherParams) = 1 THEN valToNameString(fetcherParams[1])
    ELSE LET json == JSONstringify(Arr(fetcherParams))
         IN  IF json.ok
             THEN NameResult(<<"p">> \o NumberToString(Len(fetcherParams)) \o <<"_">>
                             \o stringToMD5Hex(json.s))
             ELSE NameError

(***************************************************************************)
(* DataCache                                                               *)
(***************************************************************************)
SecondsPerMinute == 60

\* moment's absFloor: rounding towards zero
AbsFloor(n, d) == IF n >= 0 THEN n \div d ELSE 0 - ((0 - n) \div d)

Abs(n) == IF n < 0 THEN 0 - n ELSE n

\* isWithinTTL without the test for a stamp in the future: the age is taken
\* as it comes out of Math.abs
isWithinTTL_servesFuture(cachedAt, ttl, clock) ==
    Abs(AbsFloor(clock - cachedAt, SecondsPerMinute)) <= ttl

\* isWithinTTL with the boundary excluded
isWithinTTL_strict(cachedAt, ttl, clock) ==
    IF cachedAt > clock THEN FALSE
    ELSE (clock - cachedAt) \div SecondsPerMinute < ttl

\* DataCache.isWithinTTL, for a cache stamped cachedAt and read at the
\* instant clock
isWithinTTL(cachedAt, ttl, clock) ==
    IF cachedAt > clock THEN FALSE
    ELSE LET ageMin == Abs(AbsFloor(clock - cachedAt, SecondsPerMinute))
         IN  ageMin <= ttl

\* what JSON.parse(JSON.stringify(val)) gives for a value that serialises:
\* in arrays undefined and functions become null, in objects such members
\* are dropped
RECURSIVE JsonRoundTrip(_)
RECURSIVE RoundTripMembers(_, _)
RoundTripMembers(pairs, i) ==
    IF i > Len(pairs) THEN <<>>
    ELSE IF pairs[i][2].t \in {"undefined", "function"} THEN RoundTripMembers(pairs, i + 1)
    ELSE <<<<pairs[i][1], JsonRoundTrip(pairs[i][2])>>>> \o RoundTripMembers(pairs, i + 1)

JsonRoundTrip(val) ==
    CASE val.t = "array" ->
            Arr([i \in 1..Len(val.v) |->
                    IF val.v[i].t \in {"undefined", "function"} THEN Null
                    ELSE JsonRoundTrip(val.v[i])])
      [] val.t = "object" -> Obj(RoundTripMembers(val.v, 1))
      [] OTHER -> val

\* validate.isDefined
IsDefined(val) == val.t \notin {"undefined", "null"}

\* the validator 'defined' of validateParams: it rejects undefined, and
\* nothing else
Defined(val) == val.t # "undefined"

\* the namePath validator applied to an array of strings
NamePathValid(names) ==
    /\ Len(names) > 0
    /\ \A i \in 1..Len(names) : IsDatabridgeName(Str(names[i]))

\* the DataCache constructor accepts its arguments
DataCacheValid(sourcePath, streamName, data) ==
    /\ NamePathValid(sourcePath)
    /\ IsDatabridgeName(streamName)
    /\ Defined(data)

\* asJsonObject that leaves the name of the datasource in the fetcher path
asJsonObject_wholePath(sourcePath, streamName, timestamp, data) ==
    [t |-> "json",
     datasourceName |-> Head(sourcePath),
     dataFetcherPath |-> sourcePath,
     datastreamName |-> streamName.v,
     timestamp |-> timestamp,
     data |-> JsonRoundTrip(data)]

\* asJsonObject without the data member
asJsonObject_dropsData(sourcePath, streamName, timestamp, data) ==
    [t |-> "json",
     datasourceName |-> Head(sourcePath),
     dataFetcherPath |-> Tail(sourcePath),
     datastreamName |-> streamName.v,
     timestamp |-> timestamp,
     data |-> Undefined]

\* DataCache.asJsonObject, as the JSON file that fs.writeJsonSync leaves
asJsonObject(sourcePath, streamName, timestamp, data) ==
    [t |-> "json",
     datasourceName |-> Head(sourcePath),
     dataFetcherPath |-> Tail(sourcePath),
     datastreamName |-> streamName.v,
     timestamp |-> timestamp,
     data |-> JsonRoundTrip(data)]

\* a file that fs.readJsonSync cannot parse
Garbage == [t |-> "garbage"]

\* a file that holds JSON other than an object: the number 0
NotAnObject == [t |-> "value", v |-> Num(0)]

\* no file
Absent == [t |-> "absent"]

\* DataCache.fromJsonObject accepts what was read
fromJsonObjectValid(file) ==
    /\ file.t = "json"
    /\ DataCacheValid(<<file.datasourceName>> \o file.dataFetcherPath,
                      Str(file.datastreamName), file.data)

\* the DataCache object the constructor builds from its arguments
DataCache(sourcePath, streamName, timestamp, data) ==
    [datasourceName |-> Head(sourcePath), dataFetcherPath |-> Tail(sourcePath),
     datastreamName |-> streamName, timestamp |-> timestamp, data |-> data]

\* a value JavaScript takes for false in a condition
Falsy(val) ==
    \/ val.t \in {"undefined", "null"}
    \/ val = Bool(FALSE)
    \/ val = Num(0)
    \/ val = Str(<<>>)

\* fromJsonObject that takes data for missing when it is falsy
fromJsonObject_truthyData(file) ==
    IF fromJsonObjectValid(file) /\ ~Falsy(file.data)
    THEN [ok |-> TRUE,
          cache |-> DataCache(<<file.datasourceName>> \o file.dataFetcherPath,
                              Str(file.datastreamName), file.timestamp, file.data)]
    ELSE [ok |-> FALSE, cache |-> Undefined]

\* DataCache.fromJsonObject: the DataCache built from what was read, or
\* the validation error
fromJsonObject(file) ==
    IF fromJsonObjectValid(file)
    THEN [ok |-> TRUE,
          cache |-> DataCache(<<file.datasourceName>> \o file.dataFetcherPath,
                              Str(file.datastreamName), file.timestamp, file.data)]
    ELSE [ok |-> FALSE, cache |-> Undefined]

(***************************************************************************)
(* Datasources                                                             *)
(***************************************************************************)
\* a function value that can carry a streamNameGenerator property
Fn(id, gen) == [t |-> "function", id |-> id, streamNameGenerator |-> gen]

Datasource(df, caching, ttl) ==
    [dataFetcher |-> df, options |-> [enableCaching |-> caching, cacheTTL |-> ttl]]

\* the names every plain object and every Databridge inherits from
\* Object.prototype
ObjectMembers ==
    {<<"c","o","n","s","t","r","u","c","t","o","r">>,
     <<"t","o","S","t","r","i","n","g">>,
     <<"v","a","l","u","e","O","f">>}

\* a function that is no datasource and no data fetcher
Builtin == [t |-> "function", id |-> "builtin", streamNameGenerator |-> Undefined]

\* the names every function inherits from Function.prototype, besides
\* those of Object.prototype
FunctionMembers ==
    {<<"c","a","l","l">>, <<"a","p","p","l","y">>, <<"b","i","n","d">>}

\* property access val[key] on a data fetcher definition: an own
\* property, or what the value inherits under that name
GetProp(val, key) ==
    IF val.t = "object"
    THEN IF \E i \in 1..Len(val.v) : val.v[i][1] = key
         THEN val.v[CHOOSE i \in 1..Len(val.v) : val.v[i][1] = key][2]
         ELSE IF key \in ObjectMembers THEN Builtin
         ELSE Undefined
    ELSE IF val.t = "function"
    THEN IF key = <<"s","t","r","e","a","m","N","a","m","e",
                    "G","e","n","e","r","a","t","o","r">>
         THEN val.streamNameGenerator
         ELSE IF key \in ObjectMembers \cup FunctionMembers THEN Builtin
         ELSE Undefined
    ELSE Undefined

\* Datasource.dataFetcher(path): the value found, or an error
RECURSIVE WalkFetcher(_, _, _)
WalkFetcher(ans, pathElements, i) ==
    IF i > Len(pathElements) THEN [ok |-> TRUE, val |-> ans]
    ELSE IF IsDefined(GetProp(ans, pathElements[i]))
    THEN WalkFetcher(GetProp(ans, pathElements[i]), pathElements, i + 1)
    ELSE [ok |-> FALSE, val |-> Undefined]

dataFetcher(ds, pathElements) ==
    IF \E i \in 1..Len(pathElements) :
            ~(Len(pathElements[i]) = 0 \/ FormatMatches(pathElements[i]))
    THEN [ok |-> FALSE, val |-> Undefined]
    ELSE WalkFetcher(ds.dataFetcher, pathElements, 1)

\* what a promise is once it has settled, or "pending" before that
Promise(state, v) == [t |-> "promise", state |-> state, v |-> v]

\* validate.isPromise
IsPromise(val) == val.t = "promise"

\* the start of the message of the error fetchDataPromise throws
ExecPrefix ==
    <<"f","a","i","l","e","d"," ","t","o"," ","e","x","e","c","u","t","e"," ","f","e",
      "t","c","h","e","r"," ","w","i","t","h"," ","e","r","r","o","r",":"," ">>

\* the message of the TypeError of calling what is no function
NotAFunction ==
    <<"i","s"," ","n","o","t"," ","a"," ","f","u","n","c","t","i","o","n">>

NonExistent ==
    <<"n","o","n","-","e","x","i","s","t","e","n","t"," ","d","a","t","a"," ","f","e",
      "t","c","h","e","r"," ","r","e","q","u","e","s","t","e","d">>

\* Object.prototype.toString applied to a Datasource
ObjectObject ==
    <<"[","o","b","j","e","c","t"," ","O","b","j","e","c","t","]">>

\* what the function found at fetcherPath does when fetchDataPromise
\* applies it: a producer does what `outcome` says, throwing an Error with
\* a message or returning a value; call, apply and bind throw because the
\* datasource they are applied to is no function; toString returns
\* '[object Object]' and the other members of Object.prototype an object
ApplyFetcher(fn, key, outcome) ==
    IF fn.id # "builtin" THEN outcome
    ELSE IF key \in FunctionMembers
    THEN [kind |-> "throw", message |-> NotAFunction]
    ELSE IF key = <<"t","o","S","t","r","i","n","g">>
    THEN [kind |-> "return", val |-> Str(ObjectObject)]
    ELSE [kind |-> "return", val |-> Obj(<<>>)]

\* fetchDataPromise that wraps whatever the producer returned
fetchDataPromise_rewraps(ds, fetcherArgs, fetcherPath, outcome) ==
    LET fetcher == dataFetcher(ds, fetcherPath)
        none == [threw |-> TRUE, message |-> <<>>, promise |-> Undefined, applied |-> <<>>]
    IN
    IF \E i \in 1..Len(fetcherPath) :
            ~(Len(fetcherPath[i]) = 0 \/ FormatMatches(fetcherPath[i]))
    THEN [none EXCEPT !.message = <<"V","a","l","i","d","a","t","i","o","n">>]
    ELSE IF ~fetcher.ok
    THEN [none EXCEPT !.message = ExecPrefix \o NonExistent]
    ELSE IF fetcher.val.t # "function"
    THEN [none EXCEPT !.message = ExecPrefix \o NotAFunction]
    ELSE
    LET did == ApplyFetcher(fetcher.val,
                            IF fetcherPath = <<>> THEN <<>>
                            ELSE fetcherPath[Len(fetcherPath)], outcome)
        applied == IF fetcher.val.id = "builtin" THEN <<>>
                   ELSE <<[fn |-> fetcher.val, args |-> fetcherArgs]>>
    IN
    IF did.kind = "throw"
    THEN [none EXCEPT !.message = ExecPrefix \o did.message, !.applied = applied]
    ELSE [threw |-> FALSE, message |-> <<>>, applied |-> applied,
          promise |-> Promise("resolved", did.val)]

\* Datasource.fetchDataPromise(fetcherArgs, fetcherPath): what it throws or
\* the promise it returns, and the applications of producers it made
fetchDataPromise(ds, fetcherArgs, fetcherPath, outcome) ==
    LET fetcher == dataFetcher(ds, fetcherPath)
        none == [threw |-> TRUE, message |-> <<>>, promise |-> Undefined, applied |-> <<>>]
    IN
    IF \E i \in 1..Len(fetcherPath) :
            ~(Len(fetcherPath[i]) = 0 \/ FormatMatches(fetcherPath[i]))
    THEN [none EXCEPT !.message = <<"V","a","l","i","d","a","t","i","o","n">>]
    ELSE IF ~fetcher.ok
    THEN [none EXCEPT !.message = ExecPrefix \o NonExistent]
    ELSE IF fetcher.val.t # "function"
    THEN [none EXCEPT !.message = ExecPrefix \o NotAFunction]
    ELSE
    LET did == ApplyFetcher(fetcher.val,
                            IF fetcherPath = <<>> THEN <<>>
                            ELSE fetcherPath[Len(fetcherPath)], outcome)
        applied == IF fetcher.val.id = "builtin" THEN <<>>
                   ELSE <<[fn |-> fetcher.val, args |-> fetcherArgs]>>
    IN
    IF did.kind = "throw"
    THEN [none EXCEPT !.message = ExecPrefix \o did.message, !.applied = applied]
    ELSE [threw |-> FALSE, message |-> <<>>, applied |-> applied,
          promise |-> IF IsPromise(did.val) THEN did.val
                      ELSE Promise("resolved", did.val)]

(***************************************************************************)
(* The bridge, its environment and the callers' inputs                     *)
(***************************************************************************)
\* the most fetch calls one run makes
MaxFetches == 2
\* the most fetches whose data promise is unsettled at one time
MaxPending == 2
\* the instants, in seconds, at which a run reads the clock
Instants == {0, 30, 120, 180}
\* the defaultCacheTTL values a bridge is constructed with
DefaultTTLs == {2}

NDays == <<"d","a","y","s">>
NRaw == <<"r","a","w">>
NTree == <<"t","r","e","e">>
NLower == <<"l","o","w","e","r">>
NDeep == <<"d","e","e","p">>
NLeaf == <<"l","e","a","f">>
NNobody == <<"n","o","b","o","d","y">>
NFetch == <<"f","e","t","c","h">>
NAlt == <<"a","l","t">>
NKeyed == <<"k","e","y","e","d">>
NToString == <<"t","o","S","t","r","i","n","g">>

\* options.cacheDir, a relative path, and the working directory
CacheDir == <<"c","a","c","h","e">>
Cwd == <<"/","a","p","p">>

\* a custom stream name generator: names the stream after the number of
\* arguments
ByCount == Fn("byCount", Undefined)

\* a custom stream name generator: the first argument, which it requires to
\* be a string, is the name
FirstArg == Fn("firstArg", Undefined)

\* one callable, cached, no TTL of its own
DaysDS == Datasource(Fn("days", Undefined), TRUE, Undefined)
\* one callable, caching disabled
RawDS == Datasource(Fn("raw", Undefined), FALSE, Undefined)
\* a tree of callables with a TTL of its own; tree.lower has a custom
\* generator
TreeDS(ttl) ==
    Datasource(Obj(<< <<NLower, Fn("lower", ByCount)>>,
                      <<NDeep, Obj(<< <<NLeaf, Fn("leaf", Undefined)>> >>)>> >>),
               TRUE, Num(ttl))

\* one callable with the custom generator FirstArg, cached
KeyedDS == Datasource(Fn("keyed", FirstArg), TRUE, Undefined)

\* the (name, datasource) pairs callers register
Registrations == {<<NDays, DaysDS>>, <<NRaw, RawDS>>, <<NFetch, DaysDS>>}

\* the registrations of a run with a tree of producers, whose TTL is below
\* or above the default of the bridge
TreeRegistrations == {<<NDays, DaysDS>>, <<NTree, TreeDS(1)>>, <<NTree, TreeDS(3)>>}

\* the names of the properties and methods of a Databridge object
BridgeMembers ==
    {<<"o","p","t","i","o","n">>, <<"d","a","t","a","s","o","u","r","c","e">>,
     <<"s","o","u","r","c","e">>, <<"r","e","g","i","s","t","e","r">>,
     NFetch,
     <<"f","e","t","c","h","R","e","s","p","o","n","s","e">>,
     <<"f","e","t","c","h","D","a","t","a","P","r","o","m","i","s","e">>,
     <<"r","e","g","i","s","t","e","r","D","a","t","a","s","o","u","r","c","e">>}

\* the payloads producers deliver
PayloadList == Arr(<<Str(<<"a">>), Str(<<"b">>)>>)
PayloadObj == Obj(<< <<<<"x">>, Num(1)>> >>)
Payloads == {PayloadList, PayloadObj}

\* what a producer does when it is applied: throw, or return a value or a
\* promise of one
Behaviours == {"throw", "return"}

\* the fetch calls callers make: datasourcePath, options.streamName, fetcherArgs
FetchCalls ==
    {<<Str(NDays), Undefined, <<>>>>,
     <<Str(NDays), Undefined, <<Func>>>>,
     <<Str(NDays), Str(NAlt), <<Func>>>>,
     <<Arr(<<Str(NRaw)>>), Undefined, <<>>>>,
     <<Str(NNobody), Undefined, <<>>>>}

\* the registrations and the fetch calls of a run in which calls fail:
\* arguments that cannot be named, a custom generator that throws (no
\* argument) or returns a name that is none ('ok'), names that are not
\* registered
ErrRegistrations == {<<NDays, DaysDS>>, <<NRaw, RawDS>>, <<NKeyed, KeyedDS>>}

ErrCalls ==
    {<<Str(NDays), Undefined, <<Func>>>>,
     <<Str(NDays), Str(NAlt), <<Func>>>>,
     <<Str(NDays), Undefined, <<>>>>,
     <<Str(NRaw), Undefined, <<Func>>>>,
     <<Str(NRaw), Str(NAlt), <<Func>>>>,
     <<Str(NKeyed), Undefined, <<>>>>,
     <<Str(NKeyed), Undefined, <<Str(<<"o","k">>)>>>>,
     <<Str(NKeyed), Undefined, <<Str(NAlt)>>>>,
     <<Str(NToString), Undefined, <<>>>>,
     <<Arr(<<Str(NNobody), Str(NLower)>>), Undefined, <<>>>>}

\* the registrations, lookups, fetch calls and shortcut calls (name,
\* segments, fetcherArgs) of a run about the registry
RegRegistrations ==
    {<<NDays, DaysDS>>, <<NDays, RawDS>>, <<NTree, TreeDS(3)>>, <<NFetch, DaysDS>>,
     <<NToString, DaysDS>>}

RegLookups == {NDays, NTree, NNobody, NToString}

RegCalls ==
    {<<Str(NDays), Undefined, <<>>>>,
     <<Arr(<<Str(NTree), Str(NDeep), Str(NLeaf)>>), Undefined, <<Num(7)>>>>}

RegShortcuts ==
    {<<NDays, <<>>, <<>>>>,
     <<NTree, <<NLower>>, <<>>>>,
     <<NTree, <<NDeep, NLeaf>>, <<Num(7)>>>>}

\* the fetch calls of a run with a tree of producers
TreeCalls ==
    {<<Str(NDays), Undefined, <<>>>>,
     <<Arr(<<Str(NTree), Str(NLower)>>), Undefined, <<Func>>>>,
     <<Arr(<<Str(NTree), Str(NLower)>>), Str(NAlt), <<Func>>>>,
     <<Arr(<<Str(NTree), Str(NDeep), Str(NLeaf)>>), Undefined, <<Num(7)>>>>,
     <<Arr(<<Str(NTree), Str(NDeep), Str(NLeaf)>>), Undefined, <<Func>>>>}

Slots == 1..MaxPending
Idle == [state |-> "idle"]

(***************************************************************************)
(* Databridge                                                              *)
(***************************************************************************)
\* this._datasources[name]: an entry of the registry, or what the plain
\* object holding the registry inherits under that name
RegistryGet(name) ==
    IF name \in DOMAIN datasources
    THEN [t |-> "datasource", ds |-> datasources[name]]
    ELSE IF name \in ObjectMembers THEN Builtin
    ELSE Undefined

\* a shortcut: fetchDataPromise bound to the bridge, a datasourcePath and {}
BoundFetch(path) == [t |-> "function", bound |-> path]

\* the registerer of registerDatasource on the members of a plain object
\* of data fetchers, np being the name path of that object
RECURSIVE ShortcutMembers(_, _, _)
ShortcutMembers(pairs, i, np) ==
    IF i > Len(pairs) THEN <<>>
    ELSE LET n == pairs[i][1]
             df == pairs[i][2]
             rest == ShortcutMembers(pairs, i + 1, np)
         IN  IF df.t = "function"
             THEN << <<n, BoundFetch(Arr(np \o <<Str(n)>>))>> >> \o rest
             ELSE IF df.t = "object"
             THEN << <<n, Obj(ShortcutMembers(df.v, 1, np \o <<Str(n)>>))>> >> \o rest
             ELSE rest

\* the property registerDatasource binds under the name of the datasource
ShortcutFor(dsName, ds) ==
    IF ds.dataFetcher.t = "function" THEN BoundFetch(Str(dsName))
    ELSE Obj(ShortcutMembers(ds.dataFetcher.v, 1, <<>>))

\* this[name] seeing only the shortcuts
BridgeGet_ownOnly(name) ==
    IF name \in DOMAIN shortcuts THEN shortcuts[name] ELSE Undefined

\* this[name] on the bridge
BridgeGet(name) ==
    IF name \in DOMAIN shortcuts THEN shortcuts[name]
    ELSE IF name \in BridgeMembers \cup ObjectMembers THEN Builtin
    ELSE Undefined

Join(names, sep) ==
    LET RECURSIVE J(_)
        J(i) == IF i > Len(names) THEN <<>>
                ELSE names[i] \o (IF i < Len(names) THEN sep ELSE <<>>) \o J(i + 1)
    IN  J(1)

\* _generateCachePath that names the file after the source path alone
CachePathIn_oneFilePerSource(cacheDir, sourcePath, streamName) ==
    cacheDir \o <<"/">> \o Join(sourcePath, <<".">>) \o <<".","j","s","o","n">>

\* the segments of a path between its separators
PathSegments(p) ==
    LET RECURSIVE S(_, _)
        S(i, cur) == IF i > Len(p) THEN <<cur>>
                     ELSE IF p[i] = "/" THEN <<cur>> \o S(i + 1, <<>>)
                     ELSE S(i + 1, Append(cur, p[i]))
    IN  S(1, <<>>)

\* path.normalize on the segments from the i-th on, `kept` being what the
\* segments before left: empty and '.' segments are dropped, and a '..'
\* segment takes the segment before it away
RECURSIVE NormalizeSegments(_, _, _, _)
NormalizeSegments(segs, i, kept, absolute) ==
    IF i > Len(segs) THEN kept
    ELSE IF segs[i] = <<>> \/ segs[i] = <<".">>
    THEN NormalizeSegments(segs, i + 1, kept, absolute)
    ELSE IF segs[i] = <<".", ".">>
    THEN IF Len(kept) > 0 /\ kept[Len(kept)] # <<".", ".">>
         THEN NormalizeSegments(segs, i + 1, SubSeq(kept, 1, Len(kept) - 1), absolute)
         ELSE IF absolute THEN NormalizeSegments(segs, i + 1, kept, absolute)
         ELSE NormalizeSegments(segs, i + 1, Append(kept, segs[i]), absolute)
    ELSE NormalizeSegments(segs, i + 1, Append(kept, segs[i]), absolute)

\* path.normalize
PathNormalize(p) ==
    (IF Len(p) > 0 /\ p[1] = "/" THEN <<"/">> ELSE <<>>)
    \o Join(NormalizeSegments(PathSegments(p), 1, <<>>, Len(p) > 0 /\ p[1] = "/"), <<"/">>)

\* Databridge._generateCachePath: path.join of the cache directory and the
\* file name. path.join normalises what it joins; a file name without a
\* separator is one segment after those of the directory, which are
\* normalised to begin with, so that only a file name that holds a
\* separator has anything to normalise.
CachePathIn(cacheDir, sourcePath, streamName) ==
    IF \/ \E i \in 1..Len(streamName) : streamName[i] = "/"
       \/ \E k \in 1..Len(sourcePath) : \E i \in 1..Len(sourcePath[k]) :
              sourcePath[k][i] = "/"
    THEN PathNormalize(cacheDir \o <<"/">> \o Join(sourcePath, <<".">>) \o <<".">>
                       \o streamName \o <<".","j","s","o","n">>)
    ELSE cacheDir \o <<"/">> \o Join(sourcePath, <<".">>) \o <<".">> \o streamName
         \o <<".","j","s","o","n">>

generateCachePath(sourcePath, streamName) ==
    CachePathIn(options.cacheDir, sourcePath, streamName)

\* path.resolve of a relative path
PathResolve(p) == Cwd \o <<"/">> \o p

\* getStreamCache that takes every JSON object for a record
getStreamCache_trustsFile(sourcePath, streamName) ==
    LET cachePath == generateCachePath(sourcePath, streamName)
    IN  IF cachePath \in DOMAIN store /\ store[cachePath].t = "json"
        THEN [found |-> TRUE, file |-> store[cachePath], filePath |-> cachePath]
        ELSE [found |-> FALSE, file |-> Garbage, filePath |-> cachePath]

\* Databridge._getStreamCache: the DataCache loaded, or undefined
getStreamCache(sourcePath, streamName) ==
    LET cachePath == generateCachePath(sourcePath, streamName)
    IN  IF cachePath \in DOMAIN store /\ fromJsonObjectValid(store[cachePath])
        THEN [found |-> TRUE, file |-> store[cachePath], filePath |-> cachePath]
        ELSE [found |-> FALSE, file |-> Garbage, filePath |-> cachePath]

\* the presence validator of validate.js: the value is defined and is no
\* empty string, list or object
Present(val) ==
    /\ val.t \notin {"undefined", "null"}
    /\ val.t \in {"string", "array", "object"} => val.v # <<>>

\* the constraints on the datasourcePath argument: presence, and the
\* namePath validator, which checks a string against the undefined
\* constraint vpCons.datasourceName
namePath(val) ==
    CASE val.t = "string" -> Present(val)
      [] val.t = "array" ->
            /\ Len(val.v) > 0
            /\ \A i \in 1..Len(val.v) : IsDatabridgeName(val.v[i])
      [] OTHER -> FALSE

\* the constraint on options.streamName
StreamNameOptionValid(val) ==
    \/ val.t = "undefined"
    \/ val.t = "string" /\ (Len(val.v) = 0 \/ FormatMatches(val.v))

\* a custom stream name generator applied to the arguments: its result is
\* used as it is, or its error leaves fetchResponse
CustomGenerator(gen, fetcherArgs) ==
    IF gen.id = "firstArg"
    THEN IF Len(fetcherArgs) > 0 /\ fetcherArgs[1].t = "string"
         THEN NameResult(fetcherArgs[1].v)
         ELSE NameError
    ELSE NameResult(<<"c","n","t">> \o NumberToString(Len(fetcherArgs)))

StreamNameGeneratorKey ==
    <<"s","t","r","e","a","m","N","a","m","e","G","e","n","e","r","a","t","o","r">>

\* StreamNameFor with a custom generator preferred to options.streamName
StreamNameFor_generatorFirst(ds, fetcherPath, opts, fetcherArgs) ==
    LET fetcher == dataFetcher(ds, fetcherPath)
    IN  IF fetcher.ok /\ GetProp(fetcher.val, StreamNameGeneratorKey).t = "function"
        THEN LET g == CustomGenerator(GetProp(fetcher.val, StreamNameGeneratorKey),
                                      fetcherArgs)
             IN  [ok |-> g.ok, name |-> g.name, called |-> <<"customGenerator">>]
        ELSE IF opts.streamName.t = "string"
        THEN [ok |-> TRUE, name |-> opts.streamName, called |-> <<>>]
        ELSE IF ~fetcher.ok THEN [ok |-> FALSE, name |-> Undefined, called |-> <<>>]
        ELSE LET g == defaultStreamNameGenerator(fetcherArgs)
             IN  [ok |-> g.ok, name |-> g.name, called |-> <<"defaultGenerator">>]

\* StreamNameFor falling back to 'main' when the generator fails
StreamNameFor_fallsBackToMain(ds, fetcherPath, opts, fetcherArgs) ==
    IF opts.streamName.t = "string"
    THEN [ok |-> TRUE, name |-> opts.streamName, called |-> <<>>]
    ELSE LET fetcher == dataFetcher(ds, fetcherPath)
         IN  IF ~fetcher.ok THEN [ok |-> FALSE, name |-> Undefined, called |-> <<>>]
             ELSE IF GetProp(fetcher.val, StreamNameGeneratorKey).t = "function"
             THEN LET g == CustomGenerator(GetProp(fetcher.val, StreamNameGeneratorKey),
                                           fetcherArgs)
                  IN  [ok |-> TRUE,
                       name |-> IF g.ok THEN g.name ELSE Str(<<"m","a","i","n">>),
                       called |-> <<"customGenerator">>]
             ELSE LET g == defaultStreamNameGenerator(fetcherArgs)
                  IN  [ok |-> TRUE,
                       name |-> IF g.ok THEN g.name ELSE Str(<<"m","a","i","n">>),
                       called |-> <<"defaultGenerator">>]

\* the stream name of a fetch: the name (or the failure), and the
\* generator that was called
StreamNameFor(ds, fetcherPath, opts, fetcherArgs) ==
    IF opts.streamName.t = "string"
    THEN [ok |-> TRUE, name |-> opts.streamName, called |-> <<>>]
    ELSE LET fetcher == dataFetcher(ds, fetcherPath)
         IN  IF ~fetcher.ok THEN [ok |-> FALSE, name |-> Undefined, called |-> <<>>]
             ELSE IF GetProp(fetcher.val, StreamNameGeneratorKey).t = "function"
             THEN LET g == CustomGenerator(GetProp(fetcher.val, StreamNameGeneratorKey),
                                           fetcherArgs)
                  IN  [ok |-> g.ok, name |-> g.name, called |-> <<"customGenerator">>]
             ELSE LET g == defaultStreamNameGenerator(fetcherArgs)
                  IN  [ok |-> g.ok, name |-> g.name, called |-> <<"defaultGenerator">>]

\* ChecksCache without the test of enableCaching
ChecksCache_ignoresDisabled(ds, opts) == ~opts.bypassCache

\* ChecksCache without the test of bypassCache
ChecksCache_ignoresBypass(ds, opts) == ds.options.enableCaching

\* whether a fetch looks for a cached copy before calling the fetcher
ChecksCache(ds, opts) == ds.options.enableCaching /\ ~opts.bypassCache

\* EffectiveTTL without the override of the datasource
EffectiveTTL_defaultOnly(ds) == options.defaultCacheTTL

\* the TTL that applies to a datasource
EffectiveTTL(ds) ==
    IF ds.options.cacheTTL.t = "number" /\ ds.options.cacheTTL.v # 0
    THEN ds.options.cacheTTL.v
    ELSE options.defaultCacheTTL

\* CacheHitResponse that serves the cached copy and applies the producer
\* as well, to refresh the cache
CacheHitResponse_refreshes(response, cache) ==
    [response EXCEPT !.state = "resolved", !.data = cache.file.data,
                     !.cacheRead = [path |-> cache.filePath,
                                    timestamp |-> cache.file.timestamp],
                     !.trace = @ \o <<"invoke">>]

\* CacheHitResponse that attaches no cacheRead
CacheHitResponse_noMeta(response, cache) ==
    [response EXCEPT !.state = "resolved", !.data = cache.file.data]

\* CacheHitResponse reporting the time of the read as the timestamp
CacheHitResponse_readTime(response, cache) ==
    [response EXCEPT !.state = "resolved", !.data = cache.file.data,
                     !.cacheRead = [path |-> cache.filePath, timestamp |-> now]]

\* the response served from a valid cached copy
CacheHitResponse(response, cache) ==
    [response EXCEPT !.state = "resolved", !.data = cache.file.data,
                     !.cacheRead = [path |-> cache.filePath,
                                    timestamp |-> cache.file.timestamp]]

\* Threw with the error swallowed: the caller gets a response resolved to
\* no data
Threw_swallowed(f, error) == [f EXCEPT !.state = "resolved", !.error = error]

\* the response of a call that threw: no response object reaches the caller
Threw(f, error) == [f EXCEPT !.state = "threw", !.error = error]

\* Databridge.fetchResponse up to its return: the response handed to the
\* caller (state "resolved" on a cache hit, "pending" when the producer was
\* applied), or the error thrown. trace lists the effects of the call in
\* the order they happened.
fetchResponse(path, opts, fetcherArgs, beh) ==
    LET sourcePath == IF ~namePath(path) THEN <<>>
                      ELSE IF path.t = "string" THEN <<path.v>>
                      ELSE [i \in 1..Len(path.v) |-> path.v[i].v]
        sourceName == sourcePath[1]
        fetcherPath == Tail(sourcePath)
        base == [path |-> path, opts |-> opts, args |-> fetcherArgs,
                 sourcePath |-> sourcePath,
                 streamName |-> Undefined, cacheRead |-> Bool(FALSE),
                 cacheWrite |-> Undefined, state |-> "pending", error |-> "none",
                 data |-> Undefined, caching |-> FALSE, trace |-> <<>>]
    IN
    IF ~namePath(path) \/ ~StreamNameOptionValid(opts.streamName)
    THEN Threw([base EXCEPT !.sourcePath = <<>>], "ValidationError")
    ELSE IF ~IsDefined(RegistryGet(sourceName))
    THEN Threw(base, "no datasource registered")
    ELSE IF RegistryGet(sourceName).t # "datasource"
    THEN Threw(base, "TypeError")
    ELSE
    LET ds == datasources[sourceName]
        generated == StreamNameFor(ds, fetcherPath, opts, fetcherArgs)
    IN
    IF ~generated.ok
    THEN Threw([base EXCEPT !.trace = generated.called], "no stream name")
    ELSE
    LET streamName == generated.name
        reads == ChecksCache(ds, opts)
        cache == getStreamCache(sourcePath, streamName.v)
        fetcher == dataFetcher(ds, fetcherPath)
        response == [base EXCEPT !.streamName = streamName,
                                 !.caching = ds.options.enableCaching,
                                 !.trace = generated.called
                                           \o (IF reads THEN <<"read">> ELSE <<>>)]
    IN
    IF reads /\ cache.found /\ isWithinTTL(cache.file.timestamp, EffectiveTTL(ds), now)
    THEN CacheHitResponse(response, cache)
    ELSE IF ~fetcher.ok \/ fetcher.val.t # "function"
    THEN Threw(response, "failed to fetch data from data source")
    ELSE IF fetcher.val.id = "builtin"
    THEN IF ApplyFetcher(fetcher.val, fetcherPath[Len(fetcherPath)], beh).kind = "throw"
         THEN Threw(response, "failed to fetch data from data source")
         ELSE response
    ELSE IF beh = "throw"
    THEN Threw([response EXCEPT !.trace = @ \o <<"invoke">>],
               "failed to fetch data from data source")
    ELSE [response EXCEPT !.trace = @ \o <<"invoke">>]

\* CacheOnDelivery that leaves a record another fetch wrote in the meantime
CacheOnDelivery_firstWriteWins(f, data, ioOk) ==
    LET cachePath == generateCachePath(f.sourcePath, f.streamName.v)
        resolved == [f EXCEPT !.state = "resolved", !.data = data]
    IN  IF ~f.caching THEN [store |-> store, f |-> resolved]
        ELSE IF ~DataCacheValid(f.sourcePath, f.streamName, data)
        THEN [store |-> store, f |-> [resolved EXCEPT !.trace = @ \o <<"recordRejected">>]]
        ELSE IF ~ioOk \/ cachePath \in DOMAIN writes
        THEN [store |-> store, f |-> [resolved EXCEPT !.trace = @ \o <<"writeFailed">>]]
        ELSE [store |-> (cachePath :> asJsonObject(f.sourcePath, f.streamName, now, data))
                        @@ store,
              f |-> [resolved EXCEPT !.trace = @ \o <<"write">>,
                                     !.cacheWrite = [path |-> PathResolve(cachePath),
                                                     timestamp |-> now]]]

\* CacheOnDelivery in which a write that fails takes the file away
CacheOnDelivery_dropsOnFailure(f, data, ioOk) ==
    LET cachePath == generateCachePath(f.sourcePath, f.streamName.v)
        resolved == [f EXCEPT !.state = "resolved", !.data = data]
    IN  IF ~f.caching THEN [store |-> store, f |-> resolved]
        ELSE IF ~DataCacheValid(f.sourcePath, f.streamName, data)
        THEN [store |-> store, f |-> [resolved EXCEPT !.trace = @ \o <<"recordRejected">>]]
        ELSE IF ~ioOk
        THEN [store |-> [q \in DOMAIN store \ {cachePath} |-> store[q]],
              f |-> [resolved EXCEPT !.trace = @ \o <<"writeFailed">>]]
        ELSE [store |-> (cachePath :> asJsonObject(f.sourcePath, f.streamName, now, data))
                        @@ store,
              f |-> [resolved EXCEPT !.trace = @ \o <<"write">>,
                                     !.cacheWrite = [path |-> PathResolve(cachePath),
                                                     timestamp |-> now]]]

\* CacheOnDelivery in which a failure to write the cache fails the fetch
CacheOnDelivery_failsFetch(f, data, ioOk) ==
    LET cachePath == generateCachePath(f.sourcePath, f.streamName.v)
        resolved == [f EXCEPT !.state = "resolved", !.data = data]
    IN  IF ~f.caching THEN [store |-> store, f |-> resolved]
        ELSE IF ~DataCacheValid(f.sourcePath, f.streamName, data) \/ ~ioOk
        THEN [store |-> store,
              f |-> [f EXCEPT !.state = "rejected", !.error = "failed to cache data",
                              !.trace = @ \o <<"writeFailed">>]]
        ELSE [store |-> (cachePath :> asJsonObject(f.sourcePath, f.streamName, now, data))
                        @@ store,
              f |-> [resolved EXCEPT !.trace = @ \o <<"write">>,
                                     !.cacheWrite = [path |-> PathResolve(cachePath),
                                                     timestamp |-> now]]]

\* CacheOnDelivery that stamps the record with the start of the run
CacheOnDelivery_stampsTheStart(f, data, ioOk) ==
    LET cachePath == generateCachePath(f.sourcePath, f.streamName.v)
        resolved == [f EXCEPT !.state = "resolved", !.data = data]
    IN  IF ~f.caching THEN [store |-> store, f |-> resolved]
        ELSE IF ~DataCacheValid(f.sourcePath, f.streamName, data)
        THEN [store |-> store, f |-> [resolved EXCEPT !.trace = @ \o <<"recordRejected">>]]
        ELSE IF ~ioOk
        THEN [store |-> store, f |-> [resolved EXCEPT !.trace = @ \o <<"writeFailed">>]]
        ELSE [store |-> (cachePath :> asJsonObject(f.sourcePath, f.streamName, 0, data))
                        @@ store,
              f |-> [resolved EXCEPT !.trace = @ \o <<"write">>,
                                     !.cacheWrite = [path |-> PathResolve(cachePath),
                                                     timestamp |-> now]]]

\* the then-callback of fetchResponse, run when the producer's promise
\* resolves to data: the cache write and the cacheWrite metadata. ioOk
\* tells whether fs.writeJsonSync succeeds. The clock is read twice: the
\* record is stamped with its value when the callback starts (now), the
\* cacheWrite metadata with its value once the file is written (after).
CacheOnDeliveryAt(f, data, ioOk, after) ==
    LET cachePath == generateCachePath(f.sourcePath, f.streamName.v)
        resolved == [f EXCEPT !.state = "resolved", !.data = data]
    IN  IF ~f.caching THEN [store |-> store, f |-> resolved]
        ELSE IF ~DataCacheValid(f.sourcePath, f.streamName, data)
        THEN [store |-> store, f |-> [resolved EXCEPT !.trace = @ \o <<"recordRejected">>]]
        ELSE IF ~ioOk
        THEN [store |-> store, f |-> [resolved EXCEPT !.trace = @ \o <<"writeFailed">>]]
        ELSE [store |-> (cachePath :> asJsonObject(f.sourcePath, f.streamName, now, data))
                        @@ store,
              f |-> [resolved EXCEPT !.trace = @ \o <<"write">>,
                                     !.cacheWrite = [path |-> PathResolve(cachePath),
                                                     timestamp |-> after]]]

\* the then-callback in a run whose clock stands still while it writes
CacheOnDelivery(f, data, ioOk) == CacheOnDeliveryAt(f, data, ioOk, now)

(***************************************************************************)
(* State machine                                                           *)
(***************************************************************************)
\* a stamp later than every instant of a run
FutureStamp == 240

MainStream == <<"m","a","i","n">>

\* what the cache directory holds when the bridge is constructed: nothing,
\* or a copy of raw.main and a copy of days.main stamped in the future
InitialStores ==
    {<<>>,
     (CachePathIn(CacheDir, <<NRaw>>, MainStream)
        :> asJsonObject(<<NRaw>>, Str(MainStream), 0, PayloadObj))
     @@ (CachePathIn(CacheDir, <<NDays>>, MainStream)
        :> asJsonObject(<<NDays>>, Str(MainStream), FutureStamp, PayloadObj))}

Init ==
    /\ options \in {[cacheDir |-> CacheDir, defaultCacheTTL |-> t] : t \in DefaultTTLs}
    /\ datasources = <<>>
    /\ store \in InitialStores
    /\ now = 0
    /\ pending = [s \in Slots |-> Idle]
    /\ nFetches = 0
    /\ last = [op |-> "init"]
    /\ writes = <<>>
    /\ shortcuts = <<>>
    /\ registered = <<>>
    /\ started = [s \in Slots |-> 0]
    /\ served = <<>>

\* Databridge.registerDatasource(name, ds): returns the bridge, or throws
RegisterDatasource(name, ds) ==
    LET clash == IsDefined(RegistryGet(name)) \/ IsDefined(BridgeGet(name))
    IN  /\ datasources' = IF clash THEN datasources ELSE (name :> ds) @@ datasources
        /\ shortcuts' = IF clash THEN shortcuts
                        ELSE (name :> ShortcutFor(name, ds)) @@ shortcuts
        /\ registered' = IF clash THEN registered ELSE (name :> ds) @@ registered
        /\ last' = [op |-> "register", name |-> name, ds |-> ds, threw |-> clash,
                    returned |-> IF clash THEN "nothing" ELSE "bridge"]
        /\ UNCHANGED <<options, store, now, pending, nFetches, writes, started, served>>

\* the history of the cache reads after the call that returned f: one more
\* for the file f was served from
Serve(f) ==
    IF "path" \in DOMAIN f.cacheRead
    THEN (f.cacheRead.path :> (IF f.cacheRead.path \in DOMAIN served
                               THEN served[f.cacheRead.path] + 1 ELSE 1)) @@ served
    ELSE served

\* a call of Databridge.fetchResponse(path, opts, fetcherArgs), in which
\* the producer, if applied, behaves as beh
FetchStep(path, opts, fetcherArgs, beh) ==
    /\ \E s \in Slots : pending[s] = Idle
    /\ \E f \in {fetchResponse(path, opts, fetcherArgs, beh)} :
       LET slot == CHOOSE s \in Slots :
                        pending[s] = Idle /\ \A r \in Slots : pending[r] = Idle => s <= r
       IN  /\ last' = [op |-> "fetch", f |-> f]
           /\ pending' = IF f.state = "pending" THEN [pending EXCEPT ![slot] = f]
                         ELSE pending
           /\ started' = IF f.state = "pending"
                         THEN [started EXCEPT ![slot] = nFetches + 1]
                         ELSE started
           /\ served' = Serve(f)
    /\ nFetches' = nFetches + 1
    /\ UNCHANGED <<options, datasources, store, now, writes, shortcuts,
                 registered>>

\* the fetch calls of a run, of which there are at most MaxFetches
FetchResponse(path, opts, fetcherArgs, beh) ==
    /\ nFetches < MaxFetches
    /\ FetchStep(path, opts, fetcherArgs, beh)

\* the producer's promise of the fetch in slot s resolves to data, and the
\* then-callback runs
Deliver(s, data, ioOk) ==
    /\ pending[s] # Idle
    /\ \E done \in {CacheOnDelivery(pending[s], data, ioOk)} :
       LET cachePath == generateCachePath(done.f.sourcePath, done.f.streamName.v)
       IN  /\ store' = done.store
           /\ last' = [op |-> "deliver", f |-> done.f, ioOk |-> ioOk,
                       payload |-> data, call |-> started[s],
                       before |-> IF cachePath \in DOMAIN store THEN store[cachePath]
                                  ELSE Absent]
           /\ writes' = IF done.f.cacheWrite # Undefined
                        THEN (cachePath :> [sourcePath |-> done.f.sourcePath,
                                            args |-> done.f.args,
                                            streamName |-> done.f.opts.streamName,
                                            data |-> data,
                                            call |-> started[s],
                                            n |-> IF cachePath \in DOMAIN writes
                                                  THEN writes[cachePath].n + 1
                                                  ELSE 1]) @@ writes
                        ELSE writes
    /\ pending' = [pending EXCEPT ![s] = Idle]
    /\ started' = [started EXCEPT ![s] = 0]
    /\ UNCHANGED <<options, datasources, now, nFetches, shortcuts, registered, served>>

\* the producer's promise of the fetch in slot s rejects
Reject(s) ==
    /\ pending[s] # Idle
    /\ last' = [op |-> "reject",
                f |-> [pending[s] EXCEPT !.state = "rejected", !.error = "rejected"]]
    /\ pending' = [pending EXCEPT ![s] = Idle]
    /\ started' = [started EXCEPT ![s] = 0]
    /\ UNCHANGED <<options, datasources, store, now, nFetches, writes, shortcuts,
                 registered, served>>

\* Tick with a timeout: the fetches that wait are given up
Tick_timesOut(t) ==
    /\ t > now
    /\ now' = t
    /\ last' = [op |-> "tick"]
    /\ pending' = [s \in Slots |-> Idle]
    /\ started' = [s \in Slots |-> 0]
    /\ UNCHANGED <<options, datasources, store, nFetches, writes, shortcuts, registered, served>>

\* time passes
Tick(t) ==
    /\ t > now
    /\ now' = t
    /\ last' = [op |-> "tick"]
    /\ UNCHANGED <<options, datasources, store, pending, nFetches, writes, shortcuts,
                 registered, started, served>>

Next ==
    \/ \E r \in Registrations : nFetches = 0 /\ RegisterDatasource(r[1], r[2])
    \/ \E c \in FetchCalls, bypass \in BOOLEAN, beh \in Behaviours :
          FetchResponse(c[1], [streamName |-> c[2], bypassCache |-> bypass], c[3], beh)
    \/ \E s \in Slots, data \in Payloads, ioOk \in BOOLEAN : Deliver(s, data, ioOk)
    \/ \E s \in Slots : Reject(s)
    \/ \E t \in Instants : Tick(t)

Spec == Init /\ [][Next]_vars

\* the promise of the producer applied by the fetch in slot s settles
Settle(s) ==
    \/ \E data \in Payloads, ioOk \in BOOLEAN : Deliver(s, data, ioOk)
    \/ Reject(s)

\* the runs in which every promise a producer returned settles
SpecLive == Init /\ [][Next]_vars /\ \A s \in Slots : WF_vars(Settle(s))

\* a bridge over an empty cache directory, used with a tree of producers
InitTree ==
    /\ Init
    /\ store = <<>>

NextTree ==
    \/ \E r \in TreeRegistrations : nFetches = 0 /\ RegisterDatasource(r[1], r[2])
    \/ \E c \in TreeCalls, bypass \in BOOLEAN, beh \in Behaviours :
          FetchResponse(c[1], [streamName |-> c[2], bypassCache |-> bypass], c[3], beh)
    \/ \E s \in Slots, data \in Payloads, ioOk \in BOOLEAN : Deliver(s, data, ioOk)
    \/ \E s \in Slots : Reject(s)
    \/ \E t \in Instants : Tick(t)

SpecTree == InitTree /\ [][NextTree]_vars

\* Databridge.datasource(name)
DatasourceAccessor(name) ==
    /\ last' = [op |-> "datasource", name |-> name,
                result |-> IF IsDefined(RegistryGet(name)) THEN RegistryGet(name)
                           ELSE Undefined]
    /\ UNCHANGED <<options, datasources, store, now, pending, nFetches, writes, shortcuts,
                   registered, started, served>>

\* the property of the bridge reached by this[name][s1]...[sk]
RECURSIVE WalkShortcut(_, _, _)
WalkShortcut(val, segs, i) ==
    IF i > Len(segs) THEN val
    ELSE IF val.t = "object" THEN WalkShortcut(GetProp(val, segs[i]), segs, i + 1)
    ELSE Undefined

\* a call of the shortcut this[name][s1]...[sk](fetcherArgs): fetchDataPromise
\* with the datasourcePath and the options {} the shortcut is bound to
ShortcutCall(name, segs, fetcherArgs, beh) ==
    /\ nFetches < MaxFetches
    /\ \E s \in Slots : pending[s] = Idle
    /\ \E target \in {WalkShortcut(BridgeGet(name), segs, 1)} :
          /\ target.t = "function"
          /\ target # Builtin
          /\ \E f \in {fetchResponse(target.bound,
                                     [streamName |-> Undefined, bypassCache |-> FALSE],
                                     fetcherArgs, beh)} :
             LET slot == CHOOSE s \in Slots :
                              pending[s] = Idle /\ \A r \in Slots : pending[r] = Idle => s <= r
             IN  /\ last' = [op |-> "shortcut", name |-> name, segs |-> segs,
                             beh |-> beh, f |-> f]
                 /\ pending' = IF f.state = "pending" THEN [pending EXCEPT ![slot] = f]
                               ELSE pending
                 /\ started' = IF f.state = "pending"
                               THEN [started EXCEPT ![slot] = nFetches + 1]
                               ELSE started
                 /\ served' = Serve(f)
    /\ nFetches' = nFetches + 1
    /\ UNCHANGED <<options, datasources, store, now, writes, shortcuts, registered>>

\* a bridge on which callers register datasources at any time, look them
\* up, fetch, and call the shortcuts
NextReg ==
    \/ \E r \in RegRegistrations : RegisterDatasource(r[1], r[2])
    \/ \E n \in RegLookups : DatasourceAccessor(n)
    \/ \E c \in RegCalls, bypass \in BOOLEAN, beh \in Behaviours :
          FetchResponse(c[1], [streamName |-> c[2], bypassCache |-> bypass], c[3], beh)
    \/ \E c \in RegShortcuts, beh \in Behaviours : ShortcutCall(c[1], c[2], c[3], beh)
    \/ \E s \in Slots, data \in Payloads, ioOk \in BOOLEAN : Deliver(s, data, ioOk)

SpecReg == InitTree /\ [][NextReg]_vars

\* a bridge whose callers make calls that fail
NextErr ==
    \/ \E r \in ErrRegistrations : nFetches = 0 /\ RegisterDatasource(r[1], r[2])
    \/ \E c \in ErrCalls, bypass \in BOOLEAN, beh \in Behaviours :
          FetchResponse(c[1], [streamName |-> c[2], bypassCache |-> bypass], c[3], beh)
    \/ \E s \in Slots, data \in Payloads, ioOk \in BOOLEAN : Deliver(s, data, ioOk)
    \/ \E s \in Slots : Reject(s)
    \/ \E t \in Instants : Tick(t)

SpecErr == Init /\ [][NextErr]_vars

\* the most fetch calls of a run over a cache directory that holds a file
\* of the stream days.main
MaxReads == 3

\* what that file holds: a record stamped at the start, nothing that
\* parses, JSON that is no object, a record without its data member, a
\* record whose stream name is not a name, a record stamped in the future
StoredFiles ==
    {asJsonObject(<<NDays>>, Str(MainStream), 0, PayloadObj),
     asJsonObject(<<NDays>>, Str(MainStream), FutureStamp, PayloadList),
     Garbage,
     NotAnObject,
     asJsonObject_dropsData(<<NDays>>, Str(MainStream), 0, PayloadObj),
     asJsonObject(<<NDays>>, Str(<<"x">>), 0, PayloadObj)}

InitStore ==
    /\ options \in {[cacheDir |-> CacheDir, defaultCacheTTL |-> t] : t \in DefaultTTLs}
    /\ datasources = <<>>
    /\ store \in {<<>>} \cup {CachePathIn(CacheDir, <<NDays>>, MainStream) :> file :
                                  file \in StoredFiles}
    /\ now = 0
    /\ pending = [s \in Slots |-> Idle]
    /\ nFetches = 0
    /\ last = [op |-> "init"]
    /\ writes = <<>>
    /\ shortcuts = <<>>
    /\ registered = <<>>
    /\ started = [s \in Slots |-> 0]
    /\ served = <<>>

StoreRegistrations == {<<NDays, DaysDS>>}

StoreCalls == {<<Str(NDays), Undefined, <<>>>>}

NextStore ==
    \/ \E r \in StoreRegistrations : nFetches = 0 /\ RegisterDatasource(r[1], r[2])
    \/ \E c \in StoreCalls, bypass \in BOOLEAN, beh \in Behaviours :
          /\ nFetches < MaxReads
          /\ FetchStep(c[1], [streamName |-> c[2], bypassCache |-> bypass], c[3], beh)
    \/ \E s \in Slots, data \in Payloads, ioOk \in BOOLEAN : Deliver(s, data, ioOk)
    \/ \E s \in Slots : Reject(s)
    \/ \E t \in Instants : Tick(t)

SpecStore == InitStore /\ [][NextStore]_vars

(***************************************************************************)
(* The stream name generator on its own                                    *)
(***************************************************************************)
\* the longest string argument, the largest number and the longest
\* argument list tried
MaxStrLen == 2
MaxNum == 3
MaxArgs == 2

GenChars == {"a", "7", "_", "-"}

GenStrings ==
    UNION {[1..n -> GenChars] : n \in 0..MaxStrLen} \cup {<<"o","k">>}

GenNumbers == ((0 - MaxNum)..MaxNum) \cup {1980}

\* the values tried as the only argument
GenValues ==
    {Undefined, Null, Bool(TRUE), Bool(FALSE), Func, Cyclic}
    \cup {Num(n) : n \in GenNumbers}
    \cup {Str(str) : str \in GenStrings}
    \cup {Arr(<<>>), Arr(<<Num(1), Str(<<"x">>)>>), Arr(<<Func>>), Arr(<<Cyclic>>),
          Arr(<<Undefined, Arr(<<Num(0 - 1)>>)>>),
          Obj(<<>>), PayloadObj, Obj(<< <<<<"f">>, Func>>, <<<<"k">>, Bool(TRUE)>> >>),
          Obj(<< <<<<"c">>, Cyclic>> >>)}

\* the values tried as one of several arguments
ListValues == {Num(1), Str(<<"x">>), Undefined, Null, Func, Cyclic}

GenArgLists ==
    {<<>>} \cup {<<val>> : val \in GenValues}
    \cup UNION {[1..n -> ListValues] : n \in 2..MaxArgs}

InitGen ==
    /\ options = [cacheDir |-> CacheDir, defaultCacheTTL |-> 2]
    /\ datasources = <<>>
    /\ store = <<>>
    /\ now = 0
    /\ pending = [s \in Slots |-> Idle]
    /\ nFetches = 0
    /\ writes = <<>>
    /\ shortcuts = <<>>
    /\ registered = <<>>
    /\ started = [s \in Slots |-> 0]
    /\ served = <<>>
    /\ \E fetcherParams \in GenArgLists : last = [op |-> "params", params |-> fetcherParams]

\* a call of Datasource.defaultStreamNameGenerator(fetcherParams)
Generate ==
    /\ last.op = "params"
    /\ last' = [op |-> "generate", params |-> last.params,
                result |-> defaultStreamNameGenerator(last.params)]
    /\ UNCHANGED <<options, datasources, store, now, pending, nFetches, writes, shortcuts,
                 registered, started, served>>

NextGen == Generate

SpecGen == InitGen /\ [][NextGen]_vars

(***************************************************************************)
(* DataCache.isWithinTTL on its own                                        *)
(***************************************************************************)
\* the longest span of a run in minutes, and the largest TTL
MaxMinutes == 4
MaxTTL == 3

\* instants around the minute boundaries, in seconds
Stamps == {m * SecondsPerMinute + d : m \in 0..MaxMinutes, d \in {0, 1, 59}}

InitTTL ==
    /\ options = [cacheDir |-> CacheDir, defaultCacheTTL |-> 2]
    /\ datasources = <<>>
    /\ store = <<>>
    /\ now \in Stamps
    /\ pending = [s \in Slots |-> Idle]
    /\ nFetches = 0
    /\ writes = <<>>
    /\ shortcuts = <<>>
    /\ registered = <<>>
    /\ started = [s \in Slots |-> 0]
    /\ served = <<>>
    /\ \E stamp \in Stamps, ttl \in 1..MaxTTL :
          last = [op |-> "cache", timestamp |-> stamp, ttl |-> ttl]

\* a call of isWithinTTL(ttl) on a DataCache stamped last.timestamp
CheckTTL ==
    /\ last.op = "cache"
    /\ last' = [op |-> "isWithinTTL", timestamp |-> last.timestamp, ttl |-> last.ttl,
                result |-> isWithinTTL(last.timestamp, last.ttl, now)]
    /\ UNCHANGED <<options, datasources, store, now, pending, nFetches, writes, shortcuts,
                 registered, started, served>>

NextTTL == CheckTTL

SpecTTL == InitTTL /\ [][NextTTL]_vars

(***************************************************************************)
(* A DataCache written to a file and read back                             *)
(***************************************************************************)
\* the payloads of the records: the primitives that count as false in
\* JavaScript, other primitives, empty and nested structures
NestedPayload ==
    Obj(<< <<<<"r","o","w","s">>, Arr(<<Null, Num(0), Obj(<<>>)>>)>>,
           <<<<"o","k">>, Bool(FALSE)>> >>)

CachePayloads ==
    {Null, Bool(FALSE), Bool(TRUE), Num(0), Num(1), Str(<<>>), Str(<<"a">>),
     Arr(<<>>), Obj(<<>>), PayloadList, PayloadObj, NestedPayload}

CacheSourcePaths == {<<NDays>>, <<NTree, NLower>>, <<NTree, NDeep, NLeaf>>}

CacheStreamNames == {Str(MainStream), Str(NAlt)}

InitCache ==
    /\ options = [cacheDir |-> CacheDir, defaultCacheTTL |-> 2]
    /\ datasources = <<>>
    /\ store = <<>>
    /\ now = 0
    /\ pending = [s \in Slots |-> Idle]
    /\ nFetches = 0
    /\ writes = <<>>
    /\ shortcuts = <<>>
    /\ registered = <<>>
    /\ started = [s \in Slots |-> 0]
    /\ served = <<>>
    /\ \E sourcePath \in CacheSourcePaths, streamName \in CacheStreamNames,
          timestamp \in Instants, data \in CachePayloads :
          /\ DataCacheValid(sourcePath, streamName, data)
          /\ last = [op |-> "new", sourcePath |-> sourcePath, streamName |-> streamName,
                      timestamp |-> timestamp, data |-> data]

\* DataCache.fromJsonObject applied to what asJsonObject gave for the
\* record DataCache(sourcePath, streamName, timestamp, data)
RoundTrip ==
    /\ last.op = "new"
    /\ \E file \in {asJsonObject(last.sourcePath, last.streamName, last.timestamp,
                                   last.data)} :
          last' = [op |-> "fromJsonObject",
                   cache |-> DataCache(last.sourcePath, last.streamName, last.timestamp,
                                       last.data),
                   file |-> file,
                   result |-> fromJsonObject(file)]
    /\ UNCHANGED <<options, datasources, store, now, pending, nFetches, writes, shortcuts,
                   registered, started, served>>

NextCache == RoundTrip

SpecCache == InitCache /\ [][NextCache]_vars

(***************************************************************************)
(* Datasource.dataFetcher on its own (SpecFetcher)                         *)
(***************************************************************************)
\* the longest path dataFetcher is asked for
MaxPathLen == 3

NCall == <<"c","a","l","l">>
\* two characters: too short for a name
NShort == <<"n","o">>

\* the data fetcher definitions tried: one callable, a tree of callables,
\* and the constructor's default {}
FetcherDefinitions == {DaysDS, TreeDS(2), Datasource(Obj(<<>>), TRUE, Undefined)}

\* the paths asked for
FetcherSegments == {NLower, NDeep, NLeaf, NNobody, NToString, NCall, NShort}
FetcherPaths ==
    UNION {[1..n -> FetcherSegments] : n \in 0..MaxPathLen}

InitFetcher ==
    /\ options = [cacheDir |-> CacheDir, defaultCacheTTL |-> 2]
    /\ datasources = <<>>
    /\ store = <<>>
    /\ now = 0
    /\ pending = [s \in Slots |-> Idle]
    /\ nFetches = 0
    /\ writes = <<>>
    /\ shortcuts = <<>>
    /\ registered = <<>>
    /\ started = [s \in Slots |-> 0]
    /\ served = <<>>
    /\ \E ds \in FetcherDefinitions, path \in FetcherPaths :
          last = [op |-> "new", ds |-> ds, path |-> path]

\* ds.dataFetcher(path)
FindFetcher ==
    /\ last.op = "new"
    /\ last' = [op |-> "dataFetcher", ds |-> last.ds, path |-> last.path,
                result |-> dataFetcher(last.ds, last.path)]
    /\ UNCHANGED <<options, datasources, store, now, pending, nFetches, writes, shortcuts,
                   registered, started, served>>

\* an error message of a producer
Boom == <<"b","o","o","m">>

\* what a producer does when it is applied: it throws an Error, returns a
\* value, or returns a promise that is pending, resolved or rejected
ProducerOutcomes ==
    {[kind |-> "throw", message |-> Boom]}
    \cup {[kind |-> "return", val |-> v] :
            v \in Payloads \cup {Undefined, Promise("pending", Undefined),
                                 Promise("resolved", PayloadObj),
                                 Promise("rejected", Str(Boom))}}

\* the argument lists a producer is applied to
FetcherArgs == {<<>>, <<Num(1)>>}

\* ds.fetchDataPromise(fetcherArgs, path)
FetchDataPromise ==
    /\ last.op = "new"
    /\ \E outcome \in ProducerOutcomes, fetcherArgs \in FetcherArgs :
          last' = [op |-> "fetchDataPromise", ds |-> last.ds, path |-> last.path,
                   args |-> fetcherArgs, outcome |-> outcome,
                   result |-> fetchDataPromise(last.ds, fetcherArgs, last.path, outcome)]
    /\ UNCHANGED <<options, datasources, store, now, pending, nFetches, writes, shortcuts,
                   registered, started, served>>

NextFetcher == FindFetcher \/ FetchDataPromise

SpecFetcher == InitFetcher /\ [][NextFetcher]_vars

(***************************************************************************)
(* Names given to registerDatasource and fetchResponse (SpecNames)         *)
(***************************************************************************)
\* the longest candidate spelt from NameChars
MaxCandidateLen == 3

\* a letter, a digit, the underscore and a character no name may hold
NameChars == {"a", "1", "_", "-"}

NUndefined == <<"u","n","d","e","f","i","n","e","d">>

\* the values offered as a name: strings, and values that are no strings
NameCandidates ==
    {Str(c) : c \in UNION {[1..n -> NameChars] : n \in 0..MaxCandidateLen}}
    \cup {Str(NDays), Str(NUndefined), Undefined, Null, Num(1)}

\* the values offered as a datasource path
PathCandidates ==
    NameCandidates
    \cup {Arr(<<>>)}
    \cup {Arr(<<c>>) : c \in NameCandidates}
    \cup {Arr(<<Str(NDays), c>>) : c \in {Str(NLower), Str(<<"a","-","a">>), Str(<<>>),
                                          Undefined, Num(1)}}

\* validate.single(val, vpCons.databridgeName) reports no error: the
\* constraint asks no presence, and an undefined, null or empty value
\* passes every validator
DatabridgeNameValid(val) ==
    \/ val.t \in {"undefined", "null"}
    \/ val.t = "string" /\ (Len(val.v) = 0 \/ FormatMatches(val.v))

\* the property key a value is converted to
PropertyKey(val) ==
    CASE val.t = "undefined" -> NUndefined
      [] val.t = "null" -> StrNull
      [] OTHER -> val.v

\* validate.single(val, {presence: true} + vpCons.databridgeName), as
\* datasource() and the namePath validator apply it
ValidateName(val) ==
    /\ last.op = "init"
    /\ last' = [op |-> "validate", candidate |-> val, accepted |-> IsDatabridgeName(val)]
    /\ UNCHANGED <<options, datasources, store, now, pending, nFetches, writes, shortcuts,
                   registered, started, served>>

\* Databridge.registerDatasource(val, ds) with any value for the name: the
\* validation of the arguments, then the registration under the property
\* key of the value
RegisterNamed(val, ds) ==
    LET dsName == PropertyKey(val)
        invalid == ~DatabridgeNameValid(val)
        clash == ~invalid /\ (IsDefined(RegistryGet(dsName)) \/ IsDefined(BridgeGet(dsName)))
        adds == ~invalid /\ ~clash
    IN  /\ datasources = <<>>
        /\ datasources' = IF adds THEN (dsName :> ds) @@ datasources ELSE datasources
        /\ shortcuts' = IF adds THEN (dsName :> ShortcutFor(dsName, ds)) @@ shortcuts
                        ELSE shortcuts
        /\ registered' = IF adds THEN (dsName :> ds) @@ registered ELSE registered
        /\ last' = [op |-> "registerDatasource", name |-> val, ds |-> ds,
                    threw |-> ~adds]
        /\ UNCHANGED <<options, store, now, pending, nFetches, writes, started, served>>

NextNames ==
    \/ \E val \in NameCandidates : ValidateName(val)
    \/ \E val \in NameCandidates : RegisterNamed(val, DaysDS)
    \/ \E path \in PathCandidates, beh \in Behaviours :
          /\ nFetches = 0
          /\ FetchResponse(path, [streamName |-> Undefined, bypassCache |-> FALSE], <<>>, beh)

SpecNames == InitTree /\ [][NextNames]_vars

(***************************************************************************)
(* Where records are kept (SpecPath)                                       *)
(***************************************************************************)
NMain == <<"m","a","i","n">>
OtherDir == <<"/","t","m","p","/","c">>

\* the source paths and stream names of the records written and read
PathNameParts == {NDays, NTree, NLower}
PathSourcePaths == UNION {[1..n -> PathNameParts] : n \in 1..2}
PathStreamNames == {NMain, NAlt, NLower}
PathKeys == [sourcePath : PathSourcePaths, streamName : PathStreamNames]

\* a bridge with an empty cache directory, and the two keys it will be
\* asked about
InitPath ==
    /\ options \in {[cacheDir |-> d, defaultCacheTTL |-> 2] : d \in {CacheDir, OtherDir}}
    /\ datasources = <<>>
    /\ store = <<>>
    /\ now = 0
    /\ pending = [s \in Slots |-> Idle]
    /\ nFetches = 0
    /\ writes = <<>>
    /\ shortcuts = <<>>
    /\ registered = <<>>
    /\ started = [s \in Slots |-> 0]
    /\ served = <<>>
    /\ \E a \in PathKeys, b \in PathKeys : last = [op |-> "new", a |-> a, b |-> b]

\* Databridge._writeStreamCache of a record for the key last.a
WriteStreamCache ==
    /\ last.op = "new"
    /\ \E cachePath \in {generateCachePath(last.a.sourcePath, last.a.streamName)} :
          /\ store' = (cachePath :> asJsonObject(last.a.sourcePath, Str(last.a.streamName),
                                                 now, PayloadObj)) @@ store
          /\ last' = [op |-> "writeStreamCache", a |-> last.a, b |-> last.b,
                      returned |-> cachePath]
    /\ UNCHANGED <<options, datasources, now, pending, nFetches, writes, shortcuts,
                   registered, started, served>>

\* Databridge._getStreamCache for the key last.b
GetStreamCache ==
    /\ last.op = "writeStreamCache"
    /\ last' = [op |-> "getStreamCache", a |-> last.a, b |-> last.b,
                returned |-> getStreamCache(last.b.sourcePath, last.b.streamName)]
    /\ UNCHANGED <<options, datasources, store, now, pending, nFetches, writes, shortcuts,
                   registered, started, served>>

NextPath == WriteStreamCache \/ GetStreamCache

SpecPath == InitPath /\ [][NextPath]_vars

(***************************************************************************)
(* Streams named by a custom generator next to other streams (SpecIso)     *)
(***************************************************************************)
\* a string that is no name: it leads out of its own file name
NClimb == <<"/",".",".","/","d","a","y","s",".","m","a","i","n">>

IsoRegistrations == {<<NDays, DaysDS>>, <<NKeyed, KeyedDS>>}

\* days with the default stream, and keyed, whose generator FirstArg names
\* the stream after the first argument
IsoCalls ==
    {<<Str(NDays), Undefined, <<>>>>,
     <<Str(NKeyed), Undefined, <<Str(NAlt)>>>>,
     <<Str(NKeyed), Undefined, <<Str(MainStream)>>>>,
     <<Str(NKeyed), Undefined, <<Str(NClimb)>>>>}

NextIso ==
    \/ \E r \in IsoRegistrations : nFetches = 0 /\ RegisterDatasource(r[1], r[2])
    \/ \E c \in IsoCalls, bypass \in BOOLEAN, beh \in Behaviours :
          FetchResponse(c[1], [streamName |-> c[2], bypassCache |-> bypass], c[3], beh)
    \/ \E s \in Slots, data \in Payloads, ioOk \in BOOLEAN : Deliver(s, data, ioOk)

SpecIso == InitTree /\ [][NextIso]_vars

(***************************************************************************)
(* Payloads that are no data, paths that end at a namespace, and a clock   *)
(* that moves while a record is written (SpecEdge)                         *)
(***************************************************************************)
NBare == <<"b","a","r","e">>

\* a datasource constructed without a data fetcher definition
BareDS == Datasource(Obj(<<>>), TRUE, Undefined)

EdgeRegistrations == {<<NDays, DaysDS>>, <<NTree, TreeDS(3)>>, <<NBare, BareDS>>}

\* a callable, the bare name of a tree, a namespace inside it, a callable
\* inside it, and the source without a definition
EdgeCalls ==
    {Str(NDays), Str(NTree), Arr(<<Str(NTree), Str(NDeep)>>),
     Arr(<<Str(NTree), Str(NDeep), Str(NLeaf)>>), Str(NBare)}

\* what a producer's promise resolves to
EdgePayloads == {PayloadObj, Undefined, Null}

\* the cache directory is empty, or holds a record that a bridge whose
\* source 'tree' was one callable left for the stream tree.main
InitEdge ==
    /\ options = [cacheDir |-> CacheDir, defaultCacheTTL |-> 2]
    /\ datasources = <<>>
    /\ store \in {<<>>,
                  CachePathIn(CacheDir, <<NTree>>, MainStream)
                    :> asJsonObject(<<NTree>>, Str(MainStream), 0, PayloadObj)}
    /\ now = 0
    /\ pending = [s \in Slots |-> Idle]
    /\ nFetches = 0
    /\ last = [op |-> "init"]
    /\ writes = <<>>
    /\ shortcuts = <<>>
    /\ registered = <<>>
    /\ started = [s \in Slots |-> 0]
    /\ served = <<>>

\* the producer's promise of the fetch in slot s resolves to data and the
\* then-callback runs; the clock reads t when the callback has written
DeliverAt(s, data, ioOk, t) ==
    /\ pending[s] # Idle
    /\ t >= now
    /\ now' = t
    /\ \E done \in {CacheOnDeliveryAt(pending[s], data, ioOk, t)} :
       LET cachePath == generateCachePath(done.f.sourcePath, done.f.streamName.v)
       IN  /\ store' = done.store
           /\ last' = [op |-> "deliver", f |-> done.f, ioOk |-> ioOk,
                       payload |-> data, call |-> started[s],
                       before |-> IF cachePath \in DOMAIN store THEN store[cachePath]
                                  ELSE Absent]
           /\ writes' = IF done.f.cacheWrite # Undefined
                        THEN (cachePath :> [sourcePath |-> done.f.sourcePath,
                                            args |-> done.f.args,
                                            streamName |-> done.f.opts.streamName,
                                            data |-> data,
                                            call |-> started[s],
                                            cacheWrite |-> done.f.cacheWrite,
                                            n |-> IF cachePath \in DOMAIN writes
                                                  THEN writes[cachePath].n + 1
                                                  ELSE 1]) @@ writes
                        ELSE writes
    /\ pending' = [pending EXCEPT ![s] = Idle]
    /\ started' = [started EXCEPT ![s] = 0]
    /\ UNCHANGED <<options, datasources, nFetches, shortcuts, registered, served>>

NextEdge ==
    \/ \E r \in EdgeRegistrations : nFetches = 0 /\ RegisterDatasource(r[1], r[2])
    \/ \E path \in EdgeCalls, bypass \in BOOLEAN, beh \in Behaviours :
          FetchResponse(path, [streamName |-> Undefined, bypassCache |-> bypass], <<>>, beh)
    \/ \E s \in Slots, data \in EdgePayloads, ioOk \in BOOLEAN, t \in Instants :
          DeliverAt(s, data, ioOk, t)
    \/ \E t \in Instants : Tick(t)

SpecEdge == InitEdge /\ [][NextEdge]_vars

(***************************************************************************)
(* Vocabulary of the properties                                            *)
(***************************************************************************)
\* the Name grammar: at least three characters, a letter first, then
\* letters, digits and underscores
IsName(str) ==
    /\ Len(str) >= 3
    /\ str[1] \in Letters
    /\ \A i \in 2..Len(str) : str[i] \in WordChars

Count(trace, effect) == Cardinality({i \in 1..Len(trace) : trace[i] = effect})

\* the fetch has a registered source
Registered(f) == f.sourcePath # <<>> /\ f.sourcePath[1] \in DOMAIN datasources

SourceOf(f) == datasources[f.sourcePath[1]]

\* the fetch got a stream name
Named(f) == f.streamName # Undefined

\* the path of the fetch leads to a callable
Callable(f) ==
    LET fetcher == dataFetcher(SourceOf(f), Tail(f.sourcePath))
    IN  fetcher.ok /\ fetcher.val.t = "function"

\* the location of the cached copy of the stream of the fetch
KeyOf(f) == CachePathIn(CacheDir, f.sourcePath, f.streamName.v)

\* the store holds a record at p
HoldsRecord(p) == p \in DOMAIN store /\ fromJsonObjectValid(store[p])

\* the source's own TTL when it has one, the default of the bridge otherwise
TTLOf(ds) ==
    IF ds.options.cacheTTL # Undefined THEN ds.options.cacheTTL.v
    ELSE options.defaultCacheTTL

\* a stamp is not in the future and its age in whole minutes is at most ttl
AgeWithin(stamp, ttl) ==
    /\ stamp <= now
    /\ \E m \in 0..ttl : m * 60 <= now - stamp /\ now - stamp < (m + 1) * 60

\* the response carries a cacheRead object (it starts out as false), a
\* cacheWrite object
HasCacheRead(f) == "path" \in DOMAIN f.cacheRead

HasCacheWrite(f) == "path" \in DOMAIN f.cacheWrite

\* the record a fetch leaves for its stream when it writes data at instant t
RecordOf(f, data, t) ==
    [t |-> "json", datasourceName |-> f.sourcePath[1],
     dataFetcherPath |-> Tail(f.sourcePath), datastreamName |-> f.streamName.v,
     timestamp |-> t, data |-> data]

(***************************************************************************)
(* Properties                                                              *)
(***************************************************************************)
\* C1: a fetch on a caching source, without bypassCache, that finds a
\* record of its stream within the effective TTL returns a response already
\* resolved to the payload of the record, with cacheRead holding the
\* location and the stored timestamp of the record, and does not apply the
\* producer.
C1_ValidCacheIsServed ==
    last.op = "fetch" =>
        LET f == last.f IN
        (/\ Registered(f) /\ Named(f)
         /\ SourceOf(f).options.enableCaching
         /\ ~f.opts.bypassCache
         /\ HoldsRecord(KeyOf(f))
         /\ AgeWithin(store[KeyOf(f)].timestamp, TTLOf(SourceOf(f))))
        => /\ f.state = "resolved"
           /\ f.data = store[KeyOf(f)].data
           /\ f.cacheRead = [path |-> KeyOf(f), timestamp |-> store[KeyOf(f)].timestamp]
           /\ Count(f.trace, "invoke") = 0

\* a fetch served a minute or more after the record was written
C1_Witness ==
    /\ last.op = "fetch"
    /\ last.f.state = "resolved"
    /\ HasCacheRead(last.f)
    /\ last.f.data = PayloadList
    /\ last.f.cacheRead.timestamp < now
    /\ Count(last.f.trace, "invoke") = 0

\* C2: isWithinTTL(ttl) is true iff the timestamp is not after the current
\* instant and the age in whole, truncated minutes is at most ttl: true at
\* exactly ttl minutes, false at ttl + 1 minutes, false for every timestamp
\* in the future.
C2_WithinTTL ==
    last.op = "isWithinTTL" =>
        LET age == now - last.timestamp IN
        /\ last.result <=>
              /\ last.timestamp <= now
              /\ \E m \in 0..last.ttl : m * 60 <= age /\ age < (m + 1) * 60
        /\ age = last.ttl * 60 => last.result
        /\ age = (last.ttl + 1) * 60 => ~last.result
        /\ last.timestamp > now => ~last.result

\* a record ttl minutes and 59 seconds old is within the TTL
C2_Witness ==
    /\ last.op = "isWithinTTL"
    /\ now - last.timestamp = last.ttl * 60 + 59
    /\ last.result

\* C3: after a fetch wrote its payload to the cache, a later fetch with the
\* same path and the same arguments (the same call but for bypassCache),
\* without bypassCache, made while that
\* record is within the TTL, is served that record: cacheRead names its
\* location, the payload is the one the earlier fetch delivered, and the
\* producer is not applied again.
C3_SecondFetchReadsFirstWrite ==
    last.op = "fetch" =>
        LET f == last.f IN
        \A p \in DOMAIN writes :
            (/\ writes[p].sourcePath = f.sourcePath
             /\ writes[p].args = f.args
             /\ writes[p].streamName = f.opts.streamName
             /\ ~f.opts.bypassCache
             /\ Registered(f)
             /\ SourceOf(f).options.enableCaching
             /\ p \in DOMAIN store
             /\ AgeWithin(store[p].timestamp, TTLOf(SourceOf(f))))
            => /\ f.state = "resolved"
               /\ HasCacheRead(f)
               /\ f.cacheRead.path = p
               /\ f.data = writes[p].data
               /\ Count(f.trace, "invoke") = 0

\* the second fetch of a run is served what the first one wrote
C3_Witness ==
    /\ last.op = "fetch"
    /\ nFetches = 2
    /\ HasCacheRead(last.f)
    /\ \E p \in DOMAIN writes :
          /\ writes[p].sourcePath = last.f.sourcePath
          /\ writes[p].args = last.f.args
          /\ last.f.cacheRead.path = p
          /\ last.f.data = writes[p].data

\* C4: a fetch on a source with caching disabled never reads the cache and
\* never writes it, whatever the store holds and whatever bypassCache is,
\* carries neither cacheRead nor cacheWrite, and, once it has a stream name
\* and a callable at its path, applies the producer exactly once.
C4_Step ==
    (/\ last'.op \in {"fetch", "deliver", "reject"}
     /\ Registered(last'.f)
     /\ ~SourceOf(last'.f).options.enableCaching)
    => /\ store' = store
       /\ Count(last'.f.trace, "read") = 0
       /\ Count(last'.f.trace, "write") = 0
       /\ ~HasCacheRead(last'.f)
       /\ last'.f.cacheWrite = Undefined
       /\ (Named(last'.f) /\ Callable(last'.f)) => Count(last'.f.trace, "invoke") = 1

C4_CachingDisabled == [][C4_Step]_vars

\* a fetch without bypassCache delivered fresh data while the store holds a
\* record of its stream, other data, stamped within the TTL
C4_Witness ==
    /\ last.op = "deliver"
    /\ ~SourceOf(last.f).options.enableCaching
    /\ ~last.f.opts.bypassCache
    /\ last.f.data = PayloadList
    /\ HoldsRecord(KeyOf(last.f))
    /\ store[KeyOf(last.f)].data = PayloadObj
    /\ AgeWithin(store[KeyOf(last.f)].timestamp, TTLOf(SourceOf(last.f)))

\* C5: a fetch with bypassCache on a caching source does not read the
\* cache and applies the producer even when a record within the TTL exists,
\* carries no cacheRead, and when its payload is delivered writes a new
\* record for its path and stream in the place of the one there.
C5_Step ==
    LET f == last'.f IN
    /\ (/\ last'.op = "fetch"
        /\ Registered(f) /\ Named(f) /\ Callable(f)
        /\ SourceOf(f).options.enableCaching
        /\ f.opts.bypassCache)
       => /\ Count(f.trace, "read") = 0
          /\ Count(f.trace, "invoke") = 1
          /\ ~HasCacheRead(f)
          /\ f.state # "resolved"
    /\ (/\ last'.op = "deliver"
        /\ SourceOf(f).options.enableCaching
        /\ f.opts.bypassCache
        /\ last'.ioOk
        /\ IsDefined(f.data)
        /\ IsName(f.streamName.v))
       => /\ ~HasCacheRead(f)
          /\ f.cacheWrite = [path |-> PathResolve(KeyOf(f)), timestamp |-> now]
          /\ DOMAIN store' = DOMAIN store \cup {KeyOf(f)}
          /\ store'[KeyOf(f)] = RecordOf(f, f.data, now)
          /\ \A p \in DOMAIN store : p # KeyOf(f) => store'[p] = store[p]

C5_BypassStillWrites == [][C5_Step]_vars

\* a bypassing fetch applied the producer although the store holds a record
\* of its stream within the TTL
C5_Witness ==
    /\ last.op = "fetch"
    /\ Registered(last.f) /\ Named(last.f)
    /\ last.f.opts.bypassCache
    /\ HoldsRecord(KeyOf(last.f))
    /\ AgeWithin(store[KeyOf(last.f)].timestamp, TTLOf(SourceOf(last.f)))
    /\ last.f.state = "pending"
    /\ Count(last.f.trace, "invoke") = 1

\* C6: whether a record that was found is served is decided by the source's
\* cacheTTL when the source sets one and by the bridge's defaultCacheTTL
\* otherwise.
C6_EffectiveTTL ==
    last.op = "fetch" =>
        LET f == last.f IN
        (/\ Registered(f) /\ Named(f)
         /\ SourceOf(f).options.enableCaching
         /\ ~f.opts.bypassCache
         /\ HoldsRecord(KeyOf(f)))
        => LET ttl == IF SourceOf(f).options.cacheTTL # Undefined
                      THEN SourceOf(f).options.cacheTTL.v
                      ELSE options.defaultCacheTTL
           IN  HasCacheRead(f) <=> AgeWithin(store[KeyOf(f)].timestamp, ttl)

\* a record within the default of the bridge but outside the TTL of its
\* source is not served
C6_Witness ==
    /\ last.op = "fetch"
    /\ Registered(last.f) /\ Named(last.f)
    /\ ~last.f.opts.bypassCache
    /\ SourceOf(last.f).options.cacheTTL # Undefined
    /\ HoldsRecord(KeyOf(last.f))
    /\ ~AgeWithin(store[KeyOf(last.f)].timestamp, SourceOf(last.f).options.cacheTTL.v)
    /\ AgeWithin(store[KeyOf(last.f)].timestamp, options.defaultCacheTTL)
    /\ ~HasCacheRead(last.f)
    /\ Count(last.f.trace, "invoke") = 1

\* C7: the configured TTL is in seconds: a record whose age in seconds
\* exceeds the effective TTL is not served from the cache.
C7_TTLInSeconds ==
    last.op = "fetch" =>
        LET f == last.f IN
        (/\ Registered(f) /\ Named(f)
         /\ HoldsRecord(KeyOf(f))
         /\ now - store[KeyOf(f)].timestamp > TTLOf(SourceOf(f)))
        => ~HasCacheRead(f)

\* C8: the stream name of a fetch is options.streamName when given, and
\* then no generator is called; otherwise the result of the custom
\* generator of the producer at the path; otherwise the result of the
\* default generator. That name is in the response and is the one the cache
\* is read and written under.
C8_StreamNameOrder ==
    (last.op \in {"fetch", "deliver"} /\ Registered(last.f)) =>
        LET f == last.f
            fetcher == dataFetcher(SourceOf(f), Tail(f.sourcePath))
            explicit == f.opts.streamName # Undefined
            custom == fetcher.ok
                      /\ GetProp(fetcher.val, StreamNameGeneratorKey).t = "function"
            generators == Count(f.trace, "customGenerator")
                          + Count(f.trace, "defaultGenerator")
        IN
        /\ explicit =>
              /\ f.streamName = f.opts.streamName
              /\ generators = 0
        /\ (~explicit /\ custom) =>
              /\ f.streamName = CustomGenerator(
                                  GetProp(fetcher.val, StreamNameGeneratorKey), f.args).name
              /\ Count(f.trace, "customGenerator") = 1
              /\ Count(f.trace, "defaultGenerator") = 0
        /\ (~explicit /\ ~custom /\ fetcher.ok) =>
              /\ f.streamName = defaultStreamNameGenerator(f.args).name
              /\ ~defaultStreamNameGenerator(f.args).ok => f.state = "threw"
              /\ Count(f.trace, "customGenerator") = 0
              /\ Count(f.trace, "defaultGenerator") = 1
        /\ HasCacheRead(f) =>
              f.cacheRead.path = CachePathIn(CacheDir, f.sourcePath, f.streamName.v)
        /\ f.cacheWrite # Undefined =>
              /\ f.cacheWrite.path
                    = PathResolve(CachePathIn(CacheDir, f.sourcePath, f.streamName.v))
              /\ store[CachePathIn(CacheDir, f.sourcePath, f.streamName.v)].datastreamName
                    = f.streamName.v

\* a fetch with an explicit stream name and an argument that cannot be
\* serialised, on a producer that has a custom generator, wrote its data
\* under the explicit name
C8_Witness ==
    /\ last.op = "deliver"
    /\ last.f.sourcePath = <<NTree, NLower>>
    /\ last.f.args = <<Func>>
    /\ last.f.opts.streamName = Str(NAlt)
    /\ last.f.streamName = Str(NAlt)
    /\ last.f.cacheWrite # Undefined

C10_ListNames ==
    (last.op = "generate" /\ Len(last.params) > 1) =>
        LET json == JSONstringify(Arr(last.params))
            count == NumberToString(Len(last.params))
        IN  IF json.ok
            THEN last.result = NameResult(<<"p">> \o count \o <<"_">> \o stringToMD5Hex(json.s))
            ELSE ~last.result.ok /\ last.result.name = Undefined

\* the list [1, 'x'] got the name p2_ and a digest
C10_Witness ==
    /\ last.op = "generate"
    /\ last.params = <<Num(1), Str(<<"x">>)>>
    /\ last.result.ok
    /\ SubSeq(last.result.name.v, 1, 3) = <<"p","2","_">>
    /\ Len(last.result.name.v) = 3 + Md5HexLen

\* C11: an argument list holding a value that JSON cannot represent (a
\* function, a cyclic object), alone or among other arguments, gets no
\* stream name from the default generator: the generator fails.
C11_UnrepresentableArgumentsFail ==
    (/\ last.op = "generate"
     /\ \E i \in 1..Len(last.params) : last.params[i].t \in {"function", "cyclic"})
    => ~last.result.ok /\ last.result.name = Undefined

\* the text the default generator hands to the digest for an argument
\* list, or the empty text when the name holds no digest
DigestInput(fetcherParams) ==
    IF Len(fetcherParams) = 0 THEN <<>>
    ELSE IF Len(fetcherParams) = 1
    THEN LET val == fetcherParams[1]
         IN  CASE val.t = "number" ->
                    IF IsName(<<"n","_">> \o NumberToString(val.v)) THEN <<>>
                    ELSE NumberToString(val.v)
               [] val.t = "string" ->
                    IF val.v = <<>> \/ IsName(<<"s","_">> \o val.v) THEN <<>> ELSE val.v
               [] val.t \in {"null", "array", "object"} /\ JSONstringify(val).ok ->
                    JSONstringify(val).s
               [] OTHER -> <<>>
    ELSE IF JSONstringify(Arr(fetcherParams)).ok THEN JSONstringify(Arr(fetcherParams)).s
    ELSE <<>>

\* the digest tells the texts of two argument lists apart
DigestInjectiveOn(a, b) ==
    DigestInput(a) # DigestInput(b)
        => stringToMD5Hex(DigestInput(a)) # stringToMD5Hex(DigestInput(b))

\* C12: with a digest that is injective, two argument lists that differ
\* never get the same stream name from the default generator.
C12_DistinctListsDistinctNames ==
    (last.op = "generate" /\ last.result.ok) =>
        \A other \in GenArgLists :
            (/\ other # last.params
             /\ defaultStreamNameGenerator(other).ok
             /\ DigestInjectiveOn(other, last.params))
            => defaultStreamNameGenerator(other).name # last.result.name

\* the stream name of the fetch came from the default generator
UsedDefault(f) == f.streamName # Undefined /\ Count(f.trace, "defaultGenerator") = 1

GeneratorFails(f) ==
    LET fetcher == dataFetcher(SourceOf(f), Tail(f.sourcePath))
        gen == GetProp(fetcher.val, StreamNameGeneratorKey)
    IN  /\ fetcher.ok
        /\ IF gen.t = "function" THEN ~CustomGenerator(gen, f.args).ok
           ELSE ~defaultStreamNameGenerator(f.args).ok

\* C14: a fetch whose stream name generator fails, custom or default, on a
\* source with or without caching, fails: the producer is not applied, the
\* store is neither read nor written, the registry is unchanged. Whatever
\* failed before, a fetch with an explicit streamName, or with arguments its
\* generator can name, gets a stream name and reaches the cache or the
\* producer.
C14_Step ==
    LET f == last'.f IN
    /\ (/\ last'.op = "fetch"
        /\ Registered(f)
        /\ f.opts.streamName = Undefined
        /\ GeneratorFails(f))
       => /\ f.state = "threw"
          /\ f.streamName = Undefined
          /\ Count(f.trace, "invoke") = 0
          /\ Count(f.trace, "read") = 0
          /\ Count(f.trace, "write") = 0
          /\ store' = store
          /\ datasources' = datasources
          /\ shortcuts' = shortcuts
          /\ pending' = pending
    /\ (/\ last'.op = "fetch"
        /\ Registered(f)
        /\ Callable(f)
        /\ (f.opts.streamName # Undefined \/ ~GeneratorFails(f)))
       => /\ Named(f)
          /\ f.error # "no stream name"
          /\ f.state = "threw" => Count(f.trace, "invoke") = 1
          /\ f.state # "threw" => (HasCacheRead(f) \/ Count(f.trace, "invoke") = 1)

C14_DerivationFailure == [][C14_Step]_vars

\* the second fetch of a run failed on a source with caching disabled,
\* over a store that holds records, for want of a stream name
C14_Witness ==
    /\ last.op = "fetch"
    /\ nFetches = 2
    /\ Registered(last.f)
    /\ ~SourceOf(last.f).options.enableCaching
    /\ last.f.args = <<Func>>
    /\ last.f.error = "no stream name"
    /\ store # <<>>

\* C15: every stream name under which a fetch reads or writes the cache is
\* a Name, however it was obtained, and a fetch whose stream name is no
\* Name fails.
C15_StreamNamesAreNames ==
    (last.op \in {"fetch", "deliver"} /\ Named(last.f)) =>
        /\ (Count(last.f.trace, "read") + Count(last.f.trace, "write") > 0)
              => IsName(last.f.streamName.v)
        /\ ~IsName(last.f.streamName.v) => last.f.state = "threw"

\* C16: a fetch whose source name is not registered fails with the error
\* 'no datasource registered', before any stream name is generated, the
\* cache is read, the producer is applied or the cache is written.
C16_UnknownSource ==
    (/\ last.op = "fetch"
     /\ last.f.sourcePath # <<>>
     /\ last.f.sourcePath[1] \notin DOMAIN datasources)
    => /\ last.f.state = "threw"
       /\ last.f.error = "no datasource registered"
       /\ last.f.trace = <<>>
       /\ ~HasCacheRead(last.f)
       /\ last.f.cacheWrite = Undefined

\* C17: registerDatasource(name, ds) fails when name is registered already
\* or names a property or method the bridge has, and then leaves the
\* registry, the entry under that name and the shortcuts as they were.
C17_Step ==
    (/\ last'.op = "register"
     /\ \/ last'.name \in DOMAIN datasources
        \/ last'.name \in BridgeMembers \cup ObjectMembers \cup DOMAIN shortcuts)
    => /\ last'.threw
       /\ last'.returned = "nothing"
       /\ datasources' = datasources
       /\ shortcuts' = shortcuts
       /\ registered' = registered

C17_NameCollision == [][C17_Step]_vars

\* after a fetch, a registration under a name that holds another datasource
\* failed and the entry is the one registered first
C17_Witness ==
    /\ last.op = "register"
    /\ last.threw
    /\ nFetches > 0
    /\ last.name \in DOMAIN datasources
    /\ datasources[last.name] # last.ds
    /\ datasources[last.name] = registered[last.name]

\* C18: a registration that succeeds returns the bridge and makes
\* datasource(name) give the datasource; every name once registered
\* resolves, ever after, to the datasource it was registered with, and
\* datasource(n) is undefined for every name n that was never registered.
C18_RegistryGrows ==
    /\ \A n \in DOMAIN registered :
          /\ n \in DOMAIN datasources
          /\ datasources[n] = registered[n]
    /\ (last.op = "register" /\ ~last.threw) =>
          /\ last.returned = "bridge"
          /\ datasources[last.name] = last.ds
    /\ last.op = "datasource" =>
          last.result = IF last.name \in DOMAIN registered
                        THEN [t |-> "datasource", ds |-> registered[last.name]]
                        ELSE Undefined

\* the datasourcePath of the fetch that matches the shortcut at the
\* segments segs under the name of a datasource
MatchingPath(name, segs) ==
    IF segs = <<>> THEN Str(name)
    ELSE Arr(<<Str(name)>> \o [i \in 1..Len(segs) |-> Str(segs[i])])

\* C19: a call of a shortcut that registerDatasource built does what the
\* fetch with the matching path and the options {} does: the same
\* producer, the same cache record, the same result.
C19_ShortcutsAreFetches ==
    last.op = "shortcut" =>
        LET path == MatchingPath(last.name, last.segs)
            viaFetch == fetchResponse(path,
                                      [streamName |-> Undefined, bypassCache |-> FALSE],
                                      last.f.args, last.beh)
        IN  [last.f EXCEPT !.path = path] = viaFetch

\* C20: when the producer throws or its promise rejects, the fetch fails
\* towards the caller, the producer was applied once and is not applied
\* again, no record is written and the store is left as it was.
C20_Step ==
    LET f == last'.f IN
    /\ (/\ last'.op = "fetch"
        /\ Count(f.trace, "invoke") > 0
        /\ f.state # "pending")
       => /\ f.state = "threw"
          /\ f.error = "failed to fetch data from data source"
          /\ Count(f.trace, "invoke") = 1
          /\ Count(f.trace, "write") = 0
          /\ f.cacheWrite = Undefined
          /\ store' = store
          /\ writes' = writes
          /\ pending' = pending
    /\ last'.op = "reject"
       => /\ f.state = "rejected"
          /\ Count(f.trace, "invoke") = 1
          /\ Count(f.trace, "write") = 0
          /\ f.cacheWrite = Undefined
          /\ store' = store
          /\ writes' = writes
          /\ \A s \in Slots : pending'[s] \in {Idle, pending[s]}

C20_ProducerFailure == [][C20_Step]_vars

\* the promise of a bypassing fetch on a caching source rejected while the
\* store holds a record of its stream
C20_Witness ==
    /\ last.op = "reject"
    /\ last.f.caching
    /\ last.f.opts.bypassCache
    /\ HoldsRecord(KeyOf(last.f))
    /\ last.f.state = "rejected"

\* C21: a failure of the producer reaches the caller of fetch as the error
\* of the bridge that wraps the cause ('failed to fetch data from data
\* source ... with error: ...'), when the producer throws and when the
\* promise it returned rejects.
C21_FailuresAreWrapped ==
    /\ (/\ last.op = "fetch" /\ last.f.state = "threw"
        /\ Count(last.f.trace, "invoke") = 1)
       => last.f.error = "failed to fetch data from data source"
    /\ last.op = "reject"
       => last.f.error = "failed to fetch data from data source"

\* C22: when the producer's payload arrives and the record cannot be
\* persisted (the write fails, or the record is refused), the fetch does
\* not fail: its data promise resolves to the payload, the response gets
\* no cacheWrite, and the store holds what it held.
C22_Step ==
    LET f == last'.f IN
    (/\ last'.op = "deliver"
     /\ f.caching
     /\ Count(f.trace, "write") = 0)
    => /\ f.state = "resolved"
       /\ f.error = "none"
       /\ f.data = last'.payload
       /\ ~HasCacheWrite(f)
       /\ store' = store
       /\ writes' = writes

C22_WriteFailureSwallowed == [][C22_Step]_vars

\* the write of other data over a record of the stream failed
C22_Witness ==
    /\ last.op = "deliver"
    /\ last.f.caching
    /\ ~last.ioOk
    /\ Count(last.f.trace, "writeFailed") = 1
    /\ HoldsRecord(KeyOf(last.f))
    /\ store[KeyOf(last.f)].data # last.payload

\* C23: when the file of the stream is missing, does not parse, or holds
\* no valid record, a fetch that looks in the cache goes on to apply the
\* producer and fails only if the producer does; when the payload arrives
\* and the write succeeds, the file holds a valid record of that payload.
C23_Step ==
    LET f == last'.f IN
    /\ (/\ last'.op = "fetch"
        /\ Registered(f) /\ Named(f) /\ Callable(f)
        /\ f.caching /\ ~f.opts.bypassCache
        /\ ~HoldsRecord(KeyOf(f)))
       => /\ Count(f.trace, "read") = 1
          /\ Count(f.trace, "invoke") = 1
          /\ ~HasCacheRead(f)
          /\ f.state \in {"pending", "threw"}
          /\ f.state = "threw" => f.error = "failed to fetch data from data source"
          /\ store' = store
    /\ (/\ last'.op = "deliver"
        /\ f.caching /\ last'.ioOk
        /\ ~HoldsRecord(KeyOf(f)))
       => /\ f.state = "resolved"
          /\ f.data = last'.payload
          /\ DOMAIN store' = DOMAIN store \cup {KeyOf(f)}
          /\ store'[KeyOf(f)] = RecordOf(f, last'.payload, now)
          /\ fromJsonObjectValid(store'[KeyOf(f)])

C23_BadFileIsAMiss == [][C23_Step]_vars

\* a fetch that looked in the cache wrote a record over a file that held
\* JSON but no valid record
C23_Witness ==
    /\ last.op = "deliver"
    /\ ~last.f.opts.bypassCache
    /\ Count(last.f.trace, "read") = 1
    /\ last.before.t = "json"
    /\ ~fromJsonObjectValid(last.before)
    /\ HoldsRecord(KeyOf(last.f))
    /\ store[KeyOf(last.f)].data = last.payload

\* the payload of the response was read from the cache: the fetch looked
\* in the cache and returned resolved data without applying the producer
ServedFromCache(f) ==
    /\ f.state = "resolved"
    /\ Count(f.trace, "read") = 1
    /\ Count(f.trace, "invoke") = 0
    /\ Count(f.trace, "write") = 0

\* C24: a response carries a cacheRead object exactly when its payload
\* was served from the cache, and a cacheWrite object exactly when this
\* fetch wrote a record; none carries both, and one that carries cacheRead
\* comes from a fetch that did not apply the producer.
C24_Step ==
    LET f == last'.f IN
    /\ (last'.op \in {"fetch", "deliver"} /\ f.state # "threw")
       => /\ HasCacheRead(f) <=> ServedFromCache(f)
          /\ HasCacheRead(f) => f.cacheRead = [path |-> KeyOf(f),
                                               timestamp |-> store[KeyOf(f)].timestamp]
          /\ HasCacheWrite(f) <=> (last'.op = "deliver" /\ writes' # writes)
          /\ HasCacheWrite(f) <=> Count(f.trace, "write") = 1
          /\ HasCacheWrite(f) => store'[KeyOf(f)] = RecordOf(f, last'.payload, now)
          /\ ~HasCacheWrite(f) => store' = store
          /\ ~(HasCacheRead(f) /\ HasCacheWrite(f))
          /\ HasCacheRead(f) => Count(f.trace, "invoke") = 0
    /\ \A s \in Slots :
          pending'[s] # Idle => ~HasCacheRead(pending'[s]) /\ ~HasCacheWrite(pending'[s])

C24_MetadataTellsWhatHappened == [][C24_Step]_vars

\* a response served from a record that an earlier fetch wrote and
\* reported in its cacheWrite
C24_Witness ==
    /\ last.op = "fetch"
    /\ HasCacheRead(last.f)
    /\ ~HasCacheWrite(last.f)
    /\ last.f.cacheRead.path \in DOMAIN writes
    /\ last.f.data = writes[last.f.cacheRead.path].data

\* every effect named first in the trace happened before every effect named after
Precedes(trace, first, after) ==
    \A i, j \in 1..Len(trace) : (trace[i] = first /\ trace[j] = after) => i < j

\* the effects of one fetch: at most one cache read, one application of
\* the producer and one cache write, in that order; a write only once the
\* payload has resolved; neither application nor write after a cache hit
OneOfEachInOrder(f) ==
    /\ Count(f.trace, "read") <= 1
    /\ Count(f.trace, "invoke") <= 1
    /\ Count(f.trace, "write") <= 1
    /\ Precedes(f.trace, "read", "invoke")
    /\ Precedes(f.trace, "invoke", "write")
    /\ Precedes(f.trace, "read", "write")
    /\ Count(f.trace, "write") = 1
          => f.state = "resolved" /\ Count(f.trace, "invoke") = 1 /\ Defined(f.data)
    /\ HasCacheRead(f)
          => Count(f.trace, "invoke") = 0 /\ Count(f.trace, "write") = 0

\* C25: each fetch makes at most one cache read, one application of the
\* producer and one cache write, in that order; the write comes only after
\* the payload resolved, and a cache hit has neither application nor write.
C25_OneOfEachInOrder ==
    /\ last.op \in {"fetch", "deliver", "reject"} => OneOfEachInOrder(last.f)
    /\ last.op = "fetch" => Count(last.f.trace, "write") = 0
    /\ \A s \in Slots :
          pending[s] # Idle => /\ OneOfEachInOrder(pending[s])
                               /\ Count(pending[s].trace, "write") = 0

\* a fetch that read the cache, applied the producer and wrote the cache
C25_Witness ==
    /\ last.op = "deliver"
    /\ \E i, j, k \in 1..Len(last.f.trace) :
          /\ i < j /\ j < k
          /\ last.f.trace[i] = "read"
          /\ last.f.trace[j] = "invoke"
          /\ last.f.trace[k] = "write"

\* another fetch of the same stream has applied the producer and its
\* payload has not resolved
Overlaps(f) ==
    \E s \in Slots : pending[s] # Idle /\ KeyOf(pending[s]) = KeyOf(f)

\* C26: a fetch of a stream with no cached copy, made while another fetch
\* of the same stream is waiting for its payload, applies the producer as
\* well; each of the two writes the cache when its payload arrives, and
\* the file holds the record of the write that came last, whichever fetch
\* started first.
C26_Step ==
    LET f == last'.f IN
    /\ (/\ last'.op = "fetch"
        /\ Registered(f) /\ Named(f) /\ Callable(f)
        /\ f.caching
        /\ Overlaps(f)
        /\ ~HoldsRecord(KeyOf(f)))
       => /\ Count(f.trace, "invoke") = 1
          /\ ~HasCacheRead(f)
          /\ f.state \in {"pending", "threw"}
          /\ f.state = "pending" => \E s \in Slots : pending[s] = Idle /\ pending'[s] = f
          /\ \A s \in Slots : pending[s] # Idle => pending'[s] = pending[s]
    /\ (/\ last'.op = "deliver"
        /\ f.caching /\ last'.ioOk)
       => /\ Count(f.trace, "write") = 1
          /\ HasCacheWrite(f)
          /\ store'[KeyOf(f)] = RecordOf(f, last'.payload, now)
          /\ writes'[KeyOf(f)].call = last'.call
          /\ writes'[KeyOf(f)].n = IF KeyOf(f) \in DOMAIN writes
                                    THEN writes[KeyOf(f)].n + 1 ELSE 1
          /\ \A s \in Slots : pending'[s] \in {Idle, pending[s]}

C26_NoDeduplication == [][C26_Step]_vars

\* two fetches of one stream overlapped and both wrote; the one that
\* started first wrote last, over the record of the other, and the file
\* holds its payload
C26_Witness ==
    /\ last.op = "deliver"
    /\ last.call = 1
    /\ HasCacheWrite(last.f)
    /\ writes[KeyOf(last.f)].n = 2
    /\ writes[KeyOf(last.f)].call = 1
    /\ last.before.t = "json"
    /\ last.before.data # last.payload
    /\ store[KeyOf(last.f)].data = last.payload

\* a fetch that waits for its payload stops waiting only in the step in
\* which the promise of its producer settles: no other step, the passing
\* of time included, ends or changes it
C27_Step ==
    \A s \in Slots :
        (pending[s] # Idle /\ pending'[s] # pending[s])
        => /\ pending'[s] = Idle
           /\ last'.op \in {"deliver", "reject"}
           /\ last'.f.state \in {"resolved", "rejected"}
           /\ last'.f.path = pending[s].path
           /\ last'.f.args = pending[s].args

\* C27: when every promise a producer returned settles, every fetch ends
\* (served from the cache, delivered, or failed); a fetch that applied the
\* producer ends exactly when that promise settles, so it waits for as
\* long as the promise does not.
C27_EndsWhenTheProducerDoes ==
    /\ \A s \in Slots : (pending[s] # Idle) ~> (pending[s] = Idle)
    /\ [](last.op = "fetch" =>
             \/ last.f.state \in {"resolved", "threw"}
             \/ \E s \in Slots : pending[s] = last.f)
    /\ [][C27_Step]_vars

\* a fetch has waited while the clock ran to its last instant, and
\* another has ended in the meantime
C27_Witness ==
    /\ last.op \in {"deliver", "reject"}
    /\ \A t \in Instants : t <= now
    /\ \E s \in Slots : pending[s] # Idle

\* C28: fromJsonObject(cache.asJsonObject()) is a DataCache equal to
\* cache, in source name, fetcher path, stream name, timestamp and data,
\* whatever JSON value the data is: null, false, 0 and the empty string
\* included.
C28_RoundTrip ==
    last.op = "fromJsonObject" =>
        /\ last.result.ok
        /\ last.result.cache = last.cache
        /\ last.result.cache.datasourceName = last.file.datasourceName
        /\ last.result.cache.dataFetcherPath = last.file.dataFetcherPath
        /\ last.result.cache.data = last.file.data

\* the record of a nested fetcher whose data is null came back
C28_Witness ==
    /\ last.op = "fromJsonObject"
    /\ last.cache.data = Null
    /\ last.cache.dataFetcherPath # <<>>
    /\ last.result.ok
    /\ last.result.cache.data = Null

\* the names in the datasourcePath argument of a fetch: a string is the
\* name of the datasource, an array holds it first and the path after
PathNames(path) ==
    IF path.t = "string" THEN <<path.v>> ELSE [i \in 1..Len(path.v) |-> path.v[i].v]

\* C29: the record a fetch writes has the first name of the path of the
\* fetch as datasourceName, the names after it as dataFetcherPath, the
\* stream name reported in the response as datastreamName and the payload
\* the data promise resolves to as data; the promise resolves to the
\* producer's payload whether the write succeeds or fails.
C29_Step ==
    LET f == last'.f IN
    last'.op = "deliver"
    => /\ f.state = "resolved"
       /\ f.data = last'.payload
       /\ HasCacheWrite(f)
          => /\ KeyOf(f) \in DOMAIN store'
             /\ store'[KeyOf(f)].datasourceName = Head(PathNames(f.path))
             /\ store'[KeyOf(f)].dataFetcherPath = Tail(PathNames(f.path))
             /\ store'[KeyOf(f)].datastreamName = f.streamName.v
             /\ store'[KeyOf(f)].data = f.data
             /\ store'[KeyOf(f)].timestamp = f.cacheWrite.timestamp
             /\ DOMAIN store'[KeyOf(f)]
                   = {"t", "datasourceName", "dataFetcherPath", "datastreamName",
                      "timestamp", "data"}
       /\ (f.caching /\ last'.ioOk) => HasCacheWrite(f)

C29_RecordContents == [][C29_Step]_vars

\* the record of a fetcher two levels down a tree, written under the
\* stream name the default generator gave
C29_Witness ==
    /\ last.op = "deliver"
    /\ HasCacheWrite(last.f)
    /\ Len(PathNames(last.f.path)) = 3
    /\ last.f.opts.streamName = Undefined
    /\ store[KeyOf(last.f)].dataFetcherPath = <<NDeep, NLeaf>>
    /\ store[KeyOf(last.f)].data = PayloadList

\* C30: the timestamp of a record is the instant of its write, and no
\* read changes it: a fetch, served from the cache or not, leaves every
\* file as it is, so a record is served only while its age since the
\* write is within the TTL, and no longer after that, however often it
\* was served before.
C30_Step ==
    LET f == last'.f IN
    /\ last'.op = "fetch" => store' = store
    /\ (last'.op = "fetch" /\ HasCacheRead(f))
       => /\ f.cacheRead.timestamp = store'[KeyOf(f)].timestamp
          /\ AgeWithin(store[KeyOf(f)].timestamp, TTLOf(SourceOf(f)))
          /\ served'[KeyOf(f)] = (IF KeyOf(f) \in DOMAIN served
                                  THEN served[KeyOf(f)] ELSE 0) + 1
    /\ (/\ last'.op = "fetch"
        /\ Registered(f) /\ Named(f) /\ Callable(f)
        /\ f.caching /\ ~f.opts.bypassCache
        /\ HoldsRecord(KeyOf(f))
        /\ ~AgeWithin(store[KeyOf(f)].timestamp, TTLOf(SourceOf(f))))
       => /\ ~HasCacheRead(f)
          /\ Count(f.trace, "invoke") = 1
    /\ (last'.op = "deliver" /\ HasCacheWrite(f))
       => store'[KeyOf(f)].timestamp = now
    /\ last'.op \notin {"deliver"} => store' = store

C30_ReadsLeaveTheStamp == [][C30_Step]_vars

\* a record that was served twice is still stamped with the instant of its
\* write and, its age now beyond the TTL, was not served to a third fetch
C30_Witness ==
    /\ last.op = "fetch"
    /\ last.f.caching /\ ~last.f.opts.bypassCache
    /\ ~HasCacheRead(last.f)
    /\ Count(last.f.trace, "invoke") = 1
    /\ HoldsRecord(KeyOf(last.f))
    /\ KeyOf(last.f) \in DOMAIN served
    /\ served[KeyOf(last.f)] = 2
    /\ store[KeyOf(last.f)].timestamp = 0
    /\ ~AgeWithin(store[KeyOf(last.f)].timestamp, TTLOf(SourceOf(last.f)))
RECURSIVE KeyWalk(_, _, _)
\* the walk of a path down a definition through keys of the definition
\* only: it fails at a segment that is no key of the namespace reached, and
\* at any segment beneath a callable
KeyWalk(tree, path, i) ==
    IF i > Len(path) THEN [ok |-> TRUE, val |-> tree]
    ELSE IF tree.t = "object" /\ \E k \in 1..Len(tree.v) : tree.v[k][1] = path[i]
    THEN KeyWalk(tree.v[CHOOSE k \in 1..Len(tree.v) : tree.v[k][1] = path[i]][2], path, i + 1)
    ELSE [ok |-> FALSE, val |-> Undefined]

\* C31: dataFetcher(path) returns the whole definition for the empty path
\* and the callable or sub-tree at a path whose every segment is a key; in
\* every other case (absent segment, segment that is no Name, segment
\* beneath a callable) it fails
C31_ResolvesKeysOnly ==
    last.op = "dataFetcher" =>
        /\ last.path = <<>> =>
                last.result = [ok |-> TRUE, val |-> last.ds.dataFetcher]
        /\ last.result = KeyWalk(last.ds.dataFetcher, last.path, 1)
\* the path leads, through keys of the definition, to a producer
AtProducer(ds, path) ==
    KeyWalk(ds.dataFetcher, path, 1).ok /\ KeyWalk(ds.dataFetcher, path, 1).val.t = "function"

\* message ends with original
Carries(message, original) ==
    /\ Len(message) >= Len(original)
    /\ SubSeq(message, Len(message) - Len(original) + 1, Len(message)) = original

\* C32: fetchDataPromise(args, path) applies the producer at path to args
\* exactly once; a promise the producer returned is what it returns, a direct
\* value comes back as a resolved promise of that value, and a synchronous
\* throw becomes a new error whose message carries the original message
C32_OnceAndAlwaysAPromise ==
    (last.op = "fetchDataPromise" /\ AtProducer(last.ds, last.path)) =>
        /\ last.result.applied
             = <<[fn |-> KeyWalk(last.ds.dataFetcher, last.path, 1).val, args |-> last.args]>>
        /\ last.outcome.kind = "return" =>
                /\ ~last.result.threw
                /\ IsPromise(last.result.promise)
                /\ last.result.promise
                     = IF IsPromise(last.outcome.val) THEN last.outcome.val
                       ELSE Promise("resolved", last.outcome.val)
        /\ last.outcome.kind = "throw" =>
                /\ last.result.threw
                /\ last.result.message # last.outcome.message
                /\ Carries(last.result.message, last.outcome.message)

\* a producer beneath a namespace returned a promise that is still pending
\* and the caller got that promise
C32_Witness ==
    /\ last.op = "fetchDataPromise"
    /\ last.path = <<NDeep, NLeaf>>
    /\ AtProducer(last.ds, last.path)
    /\ last.args = <<Num(1)>>
    /\ last.outcome = [kind |-> "return", val |-> Promise("pending", Undefined)]
    /\ last.result.promise = Promise("pending", Undefined)
    /\ Len(last.result.applied) = 1
\* the value is a Name
IsNameValue(val) == val.t = "string" /\ IsName(val.v)

\* C33: a candidate is accepted as a Name exactly when it is a string of
\* three or more characters, a letter first and then letters, digits and
\* underscores; registerDatasource rejects every source name that is no
\* Name; fetchResponse rejects every path, a single string or a list, that
\* is empty or has an element that is no Name
C33_OnlyNamesGetIn ==
    /\ last.op = "validate" => (last.accepted <=> IsNameValue(last.candidate))
    /\ (last.op = "registerDatasource" /\ ~IsNameValue(last.name)) => last.threw
    /\ (last.op = "fetch"
            /\ \/ last.f.path.t = "string" /\ ~IsNameValue(last.f.path)
               \/ last.f.path.t = "array"
                    /\ \/ last.f.path.v = <<>>
                       \/ \E i \in 1..Len(last.f.path.v) : ~IsNameValue(last.f.path.v[i]))
        => last.f.state = "threw"
\* the location the claim gives for a key: the path elements joined with
\* '.', then '.', the stream name and '.json', inside cacheDir
LocationOf(key) ==
    options.cacheDir \o <<"/">> \o Join(key.sourcePath, <<".">>) \o <<".">>
        \o key.streamName \o <<".","j","s","o","n">>

\* C34: a record is kept at cacheDir/<path elements joined with '.'>.<stream
\* name>.json; a read with the path and stream name of a write finds what
\* was written, and a read with another path or stream name, all of them
\* Names, addresses another location
C34_OneLocationPerKey ==
    /\ last.op \in {"writeStreamCache", "getStreamCache"} =>
            DOMAIN store = {LocationOf(last.a)}
    /\ last.op = "writeStreamCache" => last.returned = LocationOf(last.a)
    /\ last.op = "getStreamCache" =>
            /\ last.returned.filePath = LocationOf(last.b)
            /\ last.returned.found <=> last.b = last.a
            /\ last.b # last.a => LocationOf(last.b) # LocationOf(last.a)

\* a record written for <<tree, lower>> and stream main is looked for under
\* <<tree>> and stream lower, and is not found
C34_Witness ==
    /\ last.op = "getStreamCache"
    /\ last.a = [sourcePath |-> <<NTree, NLower>>, streamName |-> NMain]
    /\ last.b = [sourcePath |-> <<NTree>>, streamName |-> NLower]
    /\ ~last.returned.found
    /\ store # <<>>
\* C35: the payload a fetch serves from the cache is the payload of a record
\* that an earlier fetch of this bridge wrote for the same source path and
\* the same stream name, whether the stream name was given, generated by
\* default or generated by a custom generator
C35_StreamIsolation ==
    (last.op = "fetch" /\ HasCacheRead(last.f)) =>
        LET p == last.f.cacheRead.path
        IN  /\ p \in DOMAIN writes
            /\ writes[p].sourcePath = last.f.sourcePath
            /\ p \in DOMAIN store
            /\ store[p].datasourceName = last.f.sourcePath[1]
            /\ store[p].dataFetcherPath = Tail(last.f.sourcePath)
            /\ store[p].datastreamName = last.f.streamName.v
            /\ store[p].data = last.f.data
\* C36: the timestamp in the cacheWrite metadata of a response is the
\* timestamp of the record its fetch wrote, so the cacheRead.timestamp of a
\* later fetch served from that record is the cacheWrite.timestamp of the
\* fetch that wrote it
C36_OneStampPerWrite ==
    /\ (last.op = "deliver" /\ HasCacheWrite(last.f)) =>
            last.f.cacheWrite.timestamp = store[KeyOf(last.f)].timestamp
    /\ (last.op = "fetch" /\ HasCacheRead(last.f)
            /\ last.f.cacheRead.path \in DOMAIN writes) =>
            last.f.cacheRead.timestamp
                = writes[last.f.cacheRead.path].cacheWrite.timestamp
\* the key a stored record names itself
KeyIn(file) == <<file.datasourceName, file.dataFetcherPath, file.datastreamName>>

\* C37: the bridge never evicts. A key that holds a record holds one in
\* every later state; a step creates a record or overwrites one with a
\* record of the same key and leaves every other file alone; and as long as
\* the clock has not gone back behind a record's stamp, the record that
\* replaces it is not stamped earlier.
C37_Step ==
    /\ \A p \in DOMAIN store :
          /\ p \in DOMAIN store'
          /\ HoldsRecord(p) =>
                /\ fromJsonObjectValid(store'[p])
                /\ KeyIn(store'[p]) = KeyIn(store[p])
                /\ store[p].timestamp <= now => store'[p].timestamp >= store[p].timestamp
    /\ store' # store =>
          /\ last'.op = "deliver"
          /\ \A p \in DOMAIN store' :
                (p \notin DOMAIN store \/ store'[p] # store[p]) => p = KeyOf(last'.f)
          /\ KeyIn(store'[KeyOf(last'.f)])
               = <<last'.f.sourcePath[1], Tail(last'.f.sourcePath), last'.f.streamName.v>>

C37_NeverEvicts == [][C37_Step]_vars

\* a record written at one instant has been overwritten at a later one,
\* while the record of another stream stayed where it was
C37_Witness ==
    /\ last.op = "deliver"
    /\ HasCacheWrite(last.f)
    /\ last.before # Absent
    /\ KeyOf(last.f) \in DOMAIN writes
    /\ writes[KeyOf(last.f)].n = 2
    /\ store[KeyOf(last.f)].timestamp > last.before.timestamp
    /\ \E p \in DOMAIN store : p # KeyOf(last.f) /\ HoldsRecord(p)
\* C38: when the promise of a caching-enabled producer resolves to
\* undefined or to null, the caller gets that payload, the record is
\* rejected at construction, the file of the stream stays as it was and the
\* response carries no cacheWrite; so no fetch is ever served undefined or
\* null from the cache, and later fetches apply the producer again
C38_NoDataIsNeverCached ==
    /\ (last.op = "deliver" /\ last.f.caching /\ last.payload \in {Undefined, Null}) =>
            /\ last.f.state = "resolved"
            /\ last.f.data = last.payload
            /\ ~HasCacheWrite(last.f)
            /\ Count(last.f.trace, "recordRejected") = 1
            /\ IF KeyOf(last.f) \in DOMAIN store
               THEN store[KeyOf(last.f)] = last.before
               ELSE last.before = Absent
    /\ (last.op = "fetch" /\ HasCacheRead(last.f)) =>
            last.f.data \notin {Undefined, Null}
\* the path of the fetch ends, through keys of the definition, at a
\* namespace
AtNamespace(f) ==
    /\ Registered(f)
    /\ KeyWalk(SourceOf(f).dataFetcher, Tail(f.sourcePath), 1).ok
    /\ KeyWalk(SourceOf(f).dataFetcher, Tail(f.sourcePath), 1).val.t = "object"

\* C39: a fetch whose path addresses a namespace of the producer tree (the
\* bare name of a source with several producers, a namespace inside it, a
\* source built with the default empty definition) fails; no producer is
\* applied and no record is written
C39_NamespacesAreNotFetched ==
    (last.op = "fetch" /\ AtNamespace(last.f)) =>
        /\ last.f.state = "threw"
        /\ Count(last.f.trace, "invoke") = 0
        /\ ~HasCacheWrite(last.f)
        /\ \A s \in Slots : pending[s] # last.f
\* the file is a record that a fetch at this instant would not be served:
\* stamped in the future, or older than the TTL
Unservable(file, ttl) == fromJsonObjectValid(file) /\ ~AgeWithin(file.timestamp, ttl)

\* C40: an unservable record does not block its stream. A fetch without
\* bypass that finds one applies the producer; when the producer's promise
\* resolves and the write succeeds the record is replaced by one stamped
\* with the current instant that holds the new payload; and a fetch that
\* finds a record within the TTL, a replaced one included, is served from
\* it.
C40_UnservableRecordsAreReplaced ==
    LET f == last.f IN
    /\ (/\ last.op = "fetch"
        /\ Registered(f) /\ Named(f) /\ Callable(f)
        /\ f.caching /\ ~f.opts.bypassCache
        /\ KeyOf(f) \in DOMAIN store
        /\ Unservable(store[KeyOf(f)], TTLOf(SourceOf(f))))
       => /\ ~HasCacheRead(f)
          /\ Count(f.trace, "invoke") = 1
          /\ f.state \in {"pending", "threw"}
    /\ (/\ last.op = "deliver"
        /\ f.caching /\ ~f.opts.bypassCache /\ last.ioOk
        /\ last.before # Absent
        /\ Unservable(last.before, TTLOf(SourceOf(f))))
       => /\ HasCacheWrite(f)
          /\ store[KeyOf(f)] = RecordOf(f, last.payload, now)
          /\ ~Unservable(store[KeyOf(f)], TTLOf(SourceOf(f)))
    /\ (/\ last.op = "fetch"
        /\ Registered(f) /\ Named(f)
        /\ f.caching /\ ~f.opts.bypassCache
        /\ KeyOf(f) \in DOMAIN writes
        /\ AgeWithin(store[KeyOf(f)].timestamp, TTLOf(SourceOf(f))))
       => /\ HasCacheRead(f)
          /\ f.state = "resolved"
          /\ f.data = store[KeyOf(f)].data
          /\ Count(f.trace, "invoke") = 0

\* a fetch without bypass found a record stamped in the future, applied
\* the producer, and its delivery has put a record stamped now in its place
C40_Witness ==
    /\ last.op = "deliver"
    /\ last.f.caching /\ ~last.f.opts.bypassCache
    /\ last.before # Absent
    /\ fromJsonObjectValid(last.before)
    /\ last.before.timestamp = FutureStamp
    /\ HasCacheWrite(last.f)
    /\ store[KeyOf(last.f)].timestamp = now
    /\ store[KeyOf(last.f)].data = last.payload
    /\ store[KeyOf(last.f)].data # last.before.data
====
